---- MODULE Spec2Model ----
(***************************************************************************)
(* Verification model of the PASTEQUE insight backend:                     *)
(*   - the per-request agent budget ledger (core/agent_limits.py),         *)
(*   - the multi-agent NL->SQL round loop (ChatService.completion),        *)
(*   - the SSE streaming endpoint (chat_stream: worker thread, event       *)
(*     queue, consumer loop).                                              *)
(***************************************************************************)
EXTENDS Integers, Sequences, FiniteSets, TLC

(***************************************************************************)
(* Bounds of the model                                                     *)
(***************************************************************************)
MaxCap == 2
NumThreads == 2
MaxCalls == 2
MaxRows == 2
MaxPrior == 1
NumRequests == 2
MaxObjects == 3
MaxTicks == 2

(***************************************************************************)
(* Program constants                                                       *)
(***************************************************************************)
NL2SQL_EXPLORE_MAX_STEPS == 3
\* max_items of the _condense_evidence call in generate_with_evidence
ANALYST_MAX_ITEMS == 5
\* max_items of the _condense_evidence call in write
WRITER_MAX_ITEMS == 6

\* Python's None for an absent cap (limits.get(agent) on a missing key).
None == -1

Agents == {"explorateur", "analyste", "axes", "retrieval", "redaction"}
Threads == 1..NumThreads
NoThread == 0

Min(a, b) == IF a <= b THEN a ELSE b
Max(a, b) == IF a >= b THEN a ELSE b

VARIABLES
  \* ---- budget ledger (request-scoped maps and the module lock) ----
  limits,      \* _limits_var of the request context: agent -> cap or None
  counts,      \* _counts_var of the request context: agent -> count (0 = key absent)
  lockHolder,  \* holder of _counts_lock, NoThread when free
  \* ---- threads calling check_and_increment concurrently ----
  tpc,         \* thread -> position inside check_and_increment
  tagent,      \* thread -> agent argument of the call in progress
  tcur,        \* thread -> local variable `current`
  quota,       \* thread -> number of calls the thread makes in the run
  made,        \* thread -> number of calls that have returned or raised
  okCalls,     \* agent -> number of calls that returned normally
  rejCalls,    \* agent -> number of calls that raised AgentBudgetExceeded
  \* ---- settings and the context of the thread running completion ----
  mode,        \* "sync" (chat_completion) or "stream" (chat_stream)
  wctx,        \* context seen by the thread that runs ChatService.completion
  minRowsCfg,  \* settings.nl2sql_satisfaction_min_rows
  injectAnalyst, \* settings.retrieval_inject_analyst
  animMode,    \* settings.animation_mode
  \* ---- locals of ChatService.completion ----
  pc,          \* position of the orchestrator inside completion
  r,           \* loop variable of `for r in range(1, rounds + 1)`
  rounds,      \* rounds derived from the budgets
  evidence,    \* the `evidence` list
  plan,        \* len(plan) of the current round
  step,        \* idx of the probe being executed
  evForAnswer, \* ev_for_answer of the satisfied round
  retrievalPayload, \* number of rows in retrieval_payload
  \* ---- result of completion and of the API boundary ----
  resp,        \* ChatResponse returned by completion (NoResp while running)
  exc,         \* exception leaving completion ("none" when there is none)
  http,        \* HTTP status produced by chat_completion (0 = not yet)
  \* ---- observation of the run ----
  calls,       \* agent -> LLM calls made (budget check passed)
  sqlExec,     \* number of SQL statements sent to the data engine
  roundsStarted, \* iterations of the round loop entered
  probesDone,  \* probes executed by the data engine and recorded
  retrievalRuns, \* calls of _retrieve_context
  axesFailed,  \* propose_axes failures caught and logged by the round loop
  satisfiedAt, \* round whose final query satisfied the threshold (0 = none)
  raisedBy,    \* agent whose check_and_increment raised AgentBudgetExceeded inside completion
  countsAtStart, \* counter map when completion derived its rounds
  writerArgs,  \* arguments of the nl2sql.write call (NoArgs = not called)
  finalRows,   \* round -> len(frows) of that round's final query (None = not run)
  analystPrompt, \* condensed evidence put in the prompt of the last generate_with_evidence
  carried,     \* the evidence list as it was when the previous round ended
  \* ---- request, router gate and tables ----
  msg,         \* content of the last user message (lexemes)
  routerMode,  \* settings.router_mode: "rule", "llm" (local / api) or "false"
  routerCap,   \* cap of the agent "router" in the request's limits (None = uncapped)
  routerCount, \* counter of the agent "router" in the request's counts
  decision,    \* RouterDecision computed for the message (NoDecision = None)
  allowed,     \* allowed_tables passed to completion (AllTables = None)
  exclude,     \* payload.metadata["exclude_tables"]
  schema,      \* tables of the schema handed to the agents
  completionCalled, \* ChatService.completion has been called
  passSql,     \* SQL text run by the /sql passthrough (<<>> = none: the text is never empty)
  \* ---- one SQL candidate of an agent ----
  llmText,     \* text the LLM returned for the SQL (lexemes)
  vagent,      \* NL2SQLService method validating it
  vpc,         \* "idle", "llm", "returned", "raised", "executed"
  generated,   \* SQL returned by the method (<<>> = none)
  executed,    \* SQL handed to client.sql (<<>> = none)
  \* ---- requests, each handled in its own context ----
  heap,        \* the counter dicts created so far: object -> agent -> count
  nextObj,     \* next object to be created
  ctxCounts,   \* request -> object bound to _counts_var in its context (NoObject = unset)
  rqPc,        \* request -> "new", "reset" (just after reset_from_settings), "running"
  rqMade,      \* request -> check_and_increment calls made
  rqOwn,       \* request -> agent -> increments made while handling it
  \* ---- streaming endpoint ----
  q,           \* queue.Queue between worker and consumer
  emitLog,     \* kinds of the events completion passed to emit, in call order
  cpc,         \* position of the generator (consumer) on the request thread
  wst,         \* state of the worker thread
  sse,         \* SSE events yielded so far
  anims,       \* the animator threads emit has started: event, position in _anim
  dbLog,       \* operations on the session / ConversationRepository: thread, op, event
  highlight,   \* highlight_text returned by _retrieve_context ("none" = not called)
  \* ---- event sink, animator clock ----
  sinkFails,   \* the events callback raises when it is called
  clock,       \* time.time(), in fifths of a second
  lastAnimTs,  \* last_anim_ts of generate()
  animPuts,    \* times at which an 'anim' event was put on the queue
  \* ---- ticket context configuration table ----
  tcRows,      \* rows of ticket_context_configs, ordered by (updated_at, id)
  tcLast,      \* the last repository call and what it returned
  \* ---- LoopService._group_by_day ----
  entries,     \* the entries argument: the date of each entry
  today,       \* date.today()
  maxDays,     \* settings.loop_max_days
  groups,      \* the list _group_by_day returned (empty before the call)
  \* ---- NL2SQLService.explore on one LLM reply ----
  exploreReply, \* the reply of the LLM: is it JSON, and its "queries" list
  exploreOut,   \* what explore did: pending, returned (with the list), raised
  \* ---- ChatService._emit_evidence on one base statement ----
  baseSql,      \* base_sql as sqlglot parses it: the parts of the statement
  evidenceOut,  \* what _emit_evidence did: the derived SQL, the SQL it ran
  \* ---- chat_stream: the ticket-context cache section ----
  ticketContextCacheLocks, \* _ticket_context_cache_locks: key -> lock object (NoObject = no entry)
  locksMade,    \* threading.Lock objects created so far
  lockOwner,    \* lock object -> request holding it (NoRequest = free)
  lkey,         \* request -> its '<conversation_id>:<cache_key>'
  lpc,          \* request -> position in _get_ticket_context_lock / the section
  tlock,        \* request -> its local `lock` (NoObject = None)
  ticketCache   \* key of the ticket-context cache row of the conversation

ledgerVars == <<limits, counts, lockHolder>>
threadVars == <<tpc, tagent, tcur, quota, made, okCalls, rejCalls>>
cfgVars == <<mode, wctx, minRowsCfg, injectAnalyst, animMode>>
loopVars == <<pc, r, rounds, evidence, plan, step, evForAnswer, retrievalPayload, highlight>>
outVars == <<resp, exc, http>>
histVars == <<calls, sqlExec, roundsStarted, probesDone, retrievalRuns, axesFailed, satisfiedAt, raisedBy, countsAtStart, writerArgs, finalRows,
              analystPrompt, carried>>
streamVars == <<q, emitLog, anims, dbLog, cpc, wst, sse>>
entryVars == <<msg, routerMode, routerCap, routerCount, decision, allowed, exclude, schema, completionCalled, passSql>>
valVars == <<llmText, vagent, vpc, generated, executed>>
reqVars == <<heap, nextObj, ctxCounts, rqPc, rqMade, rqOwn>>
lockVars == <<ticketContextCacheLocks, locksMade, lockOwner, lkey, lpc, tlock, ticketCache>>
auxVars == <<exploreReply, exploreOut, baseSql, evidenceOut, lockVars>>
restVars == <<sinkFails, tcRows, tcLast, entries, today, maxDays, groups, auxVars>>
extVars == <<restVars, clock, lastAnimTs, animPuts>>
orchVars == <<cfgVars, loopVars, outVars, histVars, streamVars, entryVars, valVars, reqVars, extVars>>
vars == <<ledgerVars, threadVars, cfgVars, loopVars, outVars, histVars, streamVars, entryVars, valVars, reqVars, extVars>>

(***************************************************************************)
(* Budget ledger: core/agent_limits.py                                     *)
(***************************************************************************)
CapValues == {None} \cup (0..MaxCap)

\* settings.agent_max_requests keeps only caps n >= 0; reset_from_settings
\* installs them and an empty counter map.
ZeroCounts == [a \in Agents |-> 0]

\* get_limit: limits.get(agent) in the caller's context.
get_limit(lim, agent) == lim[agent]

\* get_count: int(counts.get(agent, 0)).
get_count(cnt, agent) == cnt[agent]

\* new_val > cap, with new_val = current + 1.
ExceedsOffByOne(current, cap) == current > cap
Exceeds(current, cap) == current + 1 > cap

\* `with _counts_lock:` can be entered only when no thread holds the lock.
LockAvailableNoExclusion(holder) == TRUE
LockAvailable(holder) == holder = NoThread

LedgerAgents == {"explorateur", "analyste"}

\* Entry of check_and_increment: the cap lookup done before taking the lock.
\* An uncapped agent (or no limits at all) returns at once.
CaiEnter(t, a) ==
  /\ tpc[t] = "idle"
  /\ made[t] < quota[t]
  /\ tagent' = [tagent EXCEPT ![t] = a]
  /\ IF get_limit(limits, a) = None
       THEN /\ tpc' = tpc
            /\ made' = [made EXCEPT ![t] = @ + 1]
            /\ okCalls' = [okCalls EXCEPT ![a] = @ + 1]
       ELSE /\ tpc' = [tpc EXCEPT ![t] = "wait"]
            /\ UNCHANGED <<made, okCalls>>
  /\ UNCHANGED <<ledgerVars, tcur, quota, rejCalls, orchVars>>

\* `with _counts_lock:` acquired.
CaiAcquire(t) ==
  /\ tpc[t] = "wait"
  /\ LockAvailable(lockHolder)
  /\ lockHolder' = t
  /\ tpc' = [tpc EXCEPT ![t] = "load"]
  /\ UNCHANGED <<limits, counts, tagent, tcur, quota, made, okCalls, rejCalls, orchVars>>

\* current = int(counts.get(agent, 0))
CaiLoad(t) ==
  /\ tpc[t] = "load"
  /\ tcur' = [tcur EXCEPT ![t] = get_count(counts, tagent[t])]
  /\ tpc' = [tpc EXCEPT ![t] = "store"]
  /\ UNCHANGED <<ledgerVars, tagent, quota, made, okCalls, rejCalls, orchVars>>

\* counts[agent] = new_val, lock released on leaving the with block.
CaiCommit(t) ==
  /\ tpc[t] = "store"
  /\ ~Exceeds(tcur[t], get_limit(limits, tagent[t]))
  /\ counts' = [counts EXCEPT ![tagent[t]] = tcur[t] + 1]
  /\ lockHolder' = IF lockHolder = t THEN NoThread ELSE lockHolder
  /\ tpc' = [tpc EXCEPT ![t] = "idle"]
  /\ made' = [made EXCEPT ![t] = @ + 1]
  /\ okCalls' = [okCalls EXCEPT ![tagent[t]] = @ + 1]
  /\ UNCHANGED <<limits, tagent, tcur, quota, rejCalls, orchVars>>

\* raise AgentBudgetExceeded: nothing stored, lock released by the with block.
CaiReject(t) ==
  /\ tpc[t] = "store"
  /\ Exceeds(tcur[t], get_limit(limits, tagent[t]))
  /\ lockHolder' = IF lockHolder = t THEN NoThread ELSE lockHolder
  /\ tpc' = [tpc EXCEPT ![t] = "idle"]
  /\ made' = [made EXCEPT ![t] = @ + 1]
  /\ rejCalls' = [rejCalls EXCEPT ![tagent[t]] = @ + 1]
  /\ UNCHANGED <<limits, counts, tagent, tcur, quota, okCalls, orchVars>>

(***************************************************************************)
(* The ledger as seen from one thread's context.  A ContextVar read in a   *)
(* context where reset_from_settings never ran yields its default (None):  *)
(* `limits = _limits_var.get() or {}` is then empty.                       *)
(***************************************************************************)
CtxLimit(ctx, lim, agent) == IF ctx = "empty" THEN None ELSE get_limit(lim, agent)
CtxCount(ctx, cnt, agent) == IF ctx = "empty" THEN 0 ELSE get_count(cnt, agent)

\* check_and_increment run to completion by a thread that meets no
\* contention: does it raise, and what counter map does it leave.
CaiRaises(ctx, lim, cnt, agent) ==
  LET cap == CtxLimit(ctx, lim, agent)
  IN  cap # None /\ Exceeds(CtxCount(ctx, cnt, agent), cap)

CaiCounts(ctx, lim, cnt, agent) ==
  IF CtxLimit(ctx, lim, agent) = None \/ CaiRaises(ctx, lim, cnt, agent)
    THEN cnt
    ELSE [cnt EXCEPT ![agent] = CtxCount(ctx, cnt, agent) + 1]

(***************************************************************************)
(* Text.  A message is the sequence of its lexemes: maximal runs of word    *)
(* characters (\w+), single punctuation characters and single whitespace   *)
(* characters.                                                             *)
(***************************************************************************)
IsSpace(t) == t \in {" ", "\n"}
Punct == {",", "?", "!", "/", ";", "(", ")", ".", "*", "fence"}
IsWord(t) == ~IsSpace(t) /\ t \notin Punct

\* str.strip(): leading and trailing whitespace removed.
RECURSIVE LStrip(_)
LStrip(s) == IF s # <<>> /\ IsSpace(Head(s)) THEN LStrip(Tail(s)) ELSE s
RECURSIVE RStrip(_)
RStrip(s) == IF s # <<>> /\ IsSpace(s[Len(s)]) THEN RStrip(SubSeq(s, 1, Len(s) - 1)) ELSE s
Strip(s) == RStrip(LStrip(s))

\* str.casefold() / re.I on one lexeme.
casefold(t) ==
  CASE t = "SQL" -> "sql"
    [] t = "Salut" -> "salut"
    [] t = "A" -> "a"
    [] t = "B" -> "b"
    [] t = " B " -> " b "
    [] t = "SELECT" -> "select"
    [] t = "FROM" -> "from"
    [] t = "Files" -> "files"
    [] t = "DROP" -> "drop"
    [] OTHER -> t
Casefold(s) == [i \in 1..Len(s) |-> casefold(s[i])]

\* str.startswith
StartsWith(s, p) == Len(s) >= Len(p) /\ SubSeq(s, 1, Len(p)) = p

\* The five characters "/sql ".
SqlPrefix == <<"/", "sql", " ">>

\* last.content.strip().casefold().startswith("/sql ")
IsSqlCommand(content) == StartsWith(Casefold(Strip(content)), SqlPrefix)

\* sql = last.content.strip()[5:]
PassthroughSql(content) == SubSeq(Strip(content), Len(SqlPrefix) + 1, Len(Strip(content)))

(***************************************************************************)
(* RouterService: services/router_service.py                               *)
(***************************************************************************)
SHORT_MESSAGE_TOKEN_THRESHOLD == 3
\* anim_min_interval = 0.4 (seconds), in fifths of a second
AnimMinInterval == 2

RE_GREET == {"bonjour", "salut", "coucou", "hello", "hey"}
RE_DATA == {"données", "donnée", "donnees", "donnee", "data", "kpi", "indicateur", "métrique", "metrique",
            "stat", "statistique", "statistiques", "graphique", "graphiques", "courbe", "table", "tableau",
            "tableaux", "requête", "requêtes", "requete", "requetes", "sql", "analyse", "moyenne",
            "répartition", "repartition", "taux", "évolution", "evolution", "ticket", "tickets"}
RE_FEEDBACK == {"feedback", "retour", "retours", "avis", "satisfaction", "nps", "csat", "commentaire", "commentaires"}
RE_FOYER == {"foyer", "foyerinsight", "ménage", "menage", "household"}
RE_QUESTION == {"combien", "quel", "quelle", "quels", "quand", "comment", "liste", "montre", "affiche",
                "top", "entre", "par"}
RE_TIME == {"janvier", "janv", "février", "fevrier", "mars", "avril", "mai", "juin", "juillet", "juil",
            "août", "aout", "septembre", "sept", "octobre", "oct", "novembre", "nov", "décembre", "dec",
            "2024"}
DigitLexemes == {"1", "2024"}

\* pattern.search(t) for a pattern \b(w1|w2|...)\b compiled with re.I
SearchWords(t, words) == \E i \in 1..Len(t) : IsWord(t[i]) /\ casefold(t[i]) \in words

\* _RE_PLEAS has no word boundary: "ça va" / "ca va" spans two words
\* separated by one space; merci, ok and test match inside a word.
SearchPleas(t) ==
  \/ \E i \in 1..Len(t) : casefold(t[i]) \in {"merci", "ok", "test"}
  \/ \E i \in 1..(Len(t) - 2) :
       casefold(t[i]) \in {"ça", "ca"} /\ t[i + 1] = " " /\ casefold(t[i + 2]) = "va"

\* _RE_QUESTION: an interrogative word, or a question mark anywhere.
SearchQuestionWordsOnly(t) == SearchWords(t, RE_QUESTION)
SearchQuestion(t) == SearchWords(t, RE_QUESTION) \/ \E i \in 1..Len(t) : t[i] = "?"

\* len(re.findall(r"\w+", t))
TokenCount(t) == Len(SelectSeq(t, IsWord))

\* RouterDecision(allow, route, confidence, reason); confidence in hundredths.
RouterDecision(allow, route, confidence) == [allow |-> allow, route |-> route, confidence |-> confidence]
\* decision is None: router disabled or bypassed.
NoDecision == [allow |-> TRUE, route |-> "undecided", confidence |-> 0]

\* RouterService._decide_rule
DecideRule(text) ==
  LET t == Strip(text)
  IN  IF t = <<>> THEN RouterDecision(FALSE, "none", 100)
      ELSE IF SearchWords(t, RE_FEEDBACK) THEN RouterDecision(TRUE, "feedback", 90)
      ELSE IF SearchWords(t, RE_FOYER) THEN RouterDecision(TRUE, "foyer", 70)
      ELSE IF SearchWords(t, RE_DATA) THEN RouterDecision(TRUE, "data", 85)
      ELSE IF \/ SearchQuestion(t)
              \/ SearchWords(t, RE_TIME)
              \/ \E i \in 1..Len(t) : t[i] \in DigitLexemes
             THEN RouterDecision(TRUE, "data", 75)
      ELSE IF /\ TokenCount(t) <= SHORT_MESSAGE_TOKEN_THRESHOLD
              /\ (SearchWords(t, RE_GREET) \/ SearchPleas(t))
             THEN RouterDecision(FALSE, "none", 90)
      ELSE RouterDecision(TRUE, "data", 55)

\* What RouterService._decide_llm can return after its LLM call: any
\* decision the model's JSON spells out (bool(allow), route normalised).
LlmDecisions ==
  {RouterDecision(TRUE, "data", 50), RouterDecision(FALSE, "none", 50)}

(***************************************************************************)
(* Effective tables and schema: ChatService.completion, lines 285-324      *)
(***************************************************************************)
\* repo.list_tables(): the stems of the table files, in file-name order.
DataTables == <<"A", "b">>
\* allowed_tables is None for an administrator.
AllTables == {"<all>"}

\* name.casefold() used as the lookup key on both sides.
TableKeyExact(name) == name
TableKey(name) == casefold(name)

\* item.strip().casefold() of the exclusion items that are non-blank strings.
StripName(item) ==
  CASE item = " b " -> "b"
    [] item = " B " -> "B"
    [] item = " " -> ""
    [] OTHER -> item
ExcludeLookup(exclude_raw) == {casefold(StripName(item)) : item \in {i \in exclude_raw : StripName(i) # ""}}
AllowedLookup(allowed_tables) == {TableKey(name) : name \in allowed_tables}

\* 1) the permission filter, 2) the exclusion filter.
EffectiveTables(tables, allowed_tables, exclude_raw) ==
  LET permitted == SelectSeq(tables, LAMBDA name :
                     allowed_tables = AllTables \/ TableKey(name) \in AllowedLookup(allowed_tables))
  IN  SelectSeq(permitted, LAMBDA name : TableKey(name) \notin ExcludeLookup(exclude_raw))

(***************************************************************************)
(* SQL validation: services/nl2sql_service.py.  SQL text is a sequence of  *)
(* lexemes, as a message is.                                               *)
(***************************************************************************)
\* The lexeme of three backquotes that opens or closes a fenced block.
Fence == "fence"
IndexOf(s, t) == IF \E i \in 1..Len(s) : s[i] = t THEN CHOOSE i \in 1..Len(s) : s[i] = t /\ \A j \in 1..(i - 1) : s[j] # t ELSE 0

\* str.strip(";")
RECURSIVE StripSemicolons(_)
StripSemicolons(s) ==
  IF s # <<>> /\ Head(s) = ";" THEN StripSemicolons(Tail(s))
  ELSE IF s # <<>> /\ s[Len(s)] = ";" THEN StripSemicolons(SubSeq(s, 1, Len(s) - 1))
  ELSE s

\* _extract_sql: the content of the first fenced block (less a leading
\* "sql\n"), or the text; stripped of whitespace, then of semicolons at
\* both ends.
ExtractSql(text) ==
  LET t == Strip(text)
      open == IndexOf(t, Fence)
      after == SubSeq(t, open + 1, Len(t))
      close == IndexOf(after, Fence)
      block == IF close = 0 THEN after ELSE SubSeq(after, 1, close - 1)
      code == IF Len(block) >= 2 /\ casefold(block[1]) = "sql" /\ block[2] = "\n"
                THEN SubSeq(block, 3, Len(block)) ELSE block
  IN  IF open # 0 THEN StripSemicolons(Strip(code)) ELSE StripSemicolons(Strip(t))

\* forbidden[1:] of _is_select_only, without the spaces around each word.
ForbiddenWords == {"insert", "update", "delete", "drop", "alter", "create", "grant", "revoke"}

\* _is_select_only: the lowered text starts with "select" and none of
\* " insert ", " update ", ... (a word with one space character on each
\* side) occurs in " " + s + " ".  The ";" of `forbidden` is skipped by
\* forbidden[1:].
IsSelectOnly(sql) ==
  LET s == Casefold(Strip(sql))
      s2 == <<" ">> \o s \o <<" ">>
  IN  /\ s # <<>>
      /\ Head(s) = "select"
      /\ ~\E i \in 2..(Len(s2) - 1) : s2[i] \in ForbiddenWords /\ s2[i - 1] = " " /\ s2[i + 1] = " "

\* sqlglot.parse_one(sql): the statements of the text are parsed and the
\* first one is returned.
FirstStatement(sql) ==
  LET semi == IndexOf(sql, ";")
  IN  IF semi = 0 THEN sql ELSE SubSeq(sql, 1, semi - 1)

\* tree.find_all(exp.Table): the names after FROM and JOIN, with their db
\* part ("" when the name has none).
TableRefs(stmt) ==
  {IF i + 4 <= Len(stmt) /\ stmt[i + 3] = "."
     THEN [db |-> stmt[i + 2], tbl |-> stmt[i + 4]]
     ELSE [db |-> "", tbl |-> stmt[i + 2]] :
   i \in {j \in 1..(Len(stmt) - 2) :
            casefold(stmt[j]) \in {"from", "join"} /\ IsSpace(stmt[j + 1]) /\ IsWord(stmt[j + 2])}}

\* _collect_cte_names: the names introduced by a leading WITH (the
\* candidates hold at most one).
CollectCteNames(sql) ==
  LET s == LStrip(sql)
  IN  IF Len(s) >= 3 /\ casefold(s[1]) = "with" /\ IsSpace(s[2]) /\ IsWord(s[3])
        THEN {casefold(s[3])} ELSE {}

\* settings.nl2sql_db_prefix
RequiredPrefix == "files"

\* _ensure_required_prefix: no table of the parsed tree, CTE names aside,
\* lacks the required db part.
EnsureRequiredPrefix(sql) ==
  \A t \in TableRefs(FirstStatement(sql)) :
    casefold(t.tbl) \in CollectCteNames(sql) \/ casefold(t.db) = RequiredPrefix

\* _extract_sql, _rewrite_date_functions (which changes only YEAR(...) and
\* MONTH(...) calls; the candidates hold none), _is_select_only and
\* _ensure_required_prefix, as generate, explore and generate_with_evidence
\* chain them.
ValidatorAccepts(text) ==
  LET sql == ExtractSql(text)
  IN  sql # <<>> /\ IsSelectOnly(sql) /\ EnsureRequiredPrefix(sql)

\* The data engine (integrations/mindsdb_client.py): execute(sql) runs the
\* text it is given and returns columns and rows, or fails.
DataEngineResults == (0..MaxRows) \cup {None}
DataEngineRuns(sql) == sql

(***************************************************************************)
(* ChatService.completion: services/chat_service.py                        *)
(***************************************************************************)
\* _remaining(agent): None when uncapped, else max(0, cap - get_count(agent)).
RemainingIgnoresCount(ctx, lim, cnt, agent) == CtxLimit(ctx, lim, agent)
Remaining(ctx, lim, cnt, agent) ==
  LET cap == CtxLimit(ctx, lim, agent)
  IN  IF cap = None THEN None ELSE Max(0, cap - CtxCount(ctx, cnt, agent))

\* rounds derived from rem_expl / rem_anal.
DeriveRoundsMax(remE, remA) ==
  IF remE = None /\ remA = None THEN 1
  ELSE IF remE = None THEN Max(0, remA)
  ELSE IF remA = None THEN Max(0, remE)
  ELSE Max(0, Max(remE, remA))
DeriveRounds(remE, remA) ==
  IF remE = None /\ remA = None
    THEN 1
    ELSE LET candidates == {c \in {remE, remA} : c # None}
         IN  IF candidates = {}
               THEN 1
               ELSE Max(0, CHOOSE m \in candidates : \A c \in candidates : m <= c)

\* min_rows = max(0, settings.nl2sql_satisfaction_min_rows)
MinRows(cfg) == Max(0, cfg)

\* len(frows) >= min_rows
Satisfied(n, minRows) == n >= minRows

\* `for r in range(1, rounds + 1)`: is there an iteration after round rr.
HasNextRoundOneMore(rr, rnds) == rr + 1 <= rnds + 1
HasNextRound(rr, rnds) == rr + 1 <= rnds

\* The handlers around nl2sql.explore: `except AgentBudgetExceeded: raise`
\* comes before `except Exception`, which turns the error into a reply.
ExploreHandlerRaiseAll(e) == "raise"
ExploreHandler(e) == IF e = "AgentBudgetExceeded" THEN "raise" ELSE "reply"

\* The same two handlers stand around nl2sql.generate_with_evidence.
AnalystHandler(e) == IF e = "AgentBudgetExceeded" THEN "raise" ELSE "reply"

\* The replies completion ends with f"...\n{self._llm_diag()}".
LlmDiagReplies == {"exploration_disabled", "explore_error", "analyst_error", "writer_error", "unsatisfied"}

\* _retrieve_context: `except AgentBudgetExceeded: raise` comes before
\* `except Exception`, which falls back to ([], "synthèse indisponible").
RetrieveContextHandlerCatchAll(e) == "fallback"
RetrieveContextHandlerRaiseAll(e) == "raise"
RetrieveContextHandler(e) == IF e = "AgentBudgetExceeded" THEN "raise" ELSE "fallback"

\* evidence.append({... "purpose", "sql", "columns", "rows"}) for one probe.
ProbeItem(rr, idx) == [purpose |-> "explore", round |-> rr, step |-> idx]
\* {"purpose": "answer", "sql": final_sql, ...}
AnswerItem(rr) == [purpose |-> "answer", round |-> rr, step |-> 0]

\* ev_for_answer = evidence + [answer item]
EvForAnswerNoAnswer(ev, rr) == ev
EvForAnswer(ev, rr) == Append(ev, AnswerItem(rr))

\* _condense_evidence(evidence, max_items=...): a new list `out` built from
\* the slice evidence[: max(1, max_items)], one new dict per item.
CondenseEvidence(ev, max_items) == SubSeq(ev, 1, Min(Len(ev), Max(1, max_items)))

\* NL2SQLService.write, lines 812-819: the evidence of the writer's prompt.
WriterPrompt(ev) == CondenseEvidence(ev, WRITER_MAX_ITEMS)

\* The caller's list once _condense_evidence has returned: the function
\* reads its argument and writes only to `out`.
EvidenceAfterCondenseInPlace(ev, max_items) == CondenseEvidence(ev, max_items)
EvidenceAfterCondense(ev, max_items) == ev

\* What the round loop does to `evidence` when a probe has run.
EvidenceAfterProbeReset(ev, rr, idx) == IF idx = 1 THEN <<ProbeItem(rr, idx)>> ELSE Append(ev, ProbeItem(rr, idx))
EvidenceAfterProbe(ev, rr, idx) == Append(ev, ProbeItem(rr, idx))

NoResp == [reply |-> "none", provider |-> "none", rounds_used |-> None, retrieval_rows |-> None]
NoArgs == [evidence |-> <<>>, retrieval |-> None, called |-> FALSE]

\* Metadata of the reply after a satisfied round.
WriterRoundsUsed(rr) == rr

\* The response returned when rounds <= 0.
DisabledRespNoRounds == [reply |-> "exploration_disabled", provider |-> "nl2sql-multiagent-empty", rounds_used |-> None, retrieval_rows |-> None]
DisabledResp == [reply |-> "exploration_disabled", provider |-> "nl2sql-multiagent-empty", rounds_used |-> 0, retrieval_rows |-> None]

\* events(kind, payload): the sync endpoint passes no callback, the
\* streaming endpoint passes emit, which puts the event on the queue.  An
\* event is written as its SSE name, followed by the payload key or purpose
\* where a handler looks at it ("meta:evidence_spec", "rows:evidence").

\* _should_animate(evt, data): animator is None unless the mode is "true".
ShouldAnimate(evt) ==
  /\ animMode = "true"
  /\ evt \in {"meta:effective_tables", "meta:evidence_spec", "plan", "sql", "rows:evidence"}

\* emit starts one thread running _anim for every event worth animating.
AnimThread(evt) == [evt |-> evt, pc |-> "start", out |-> "pending"]
Started(kinds) ==
  LET w == SelectSeq(kinds, ShouldAnimate)
  IN  [i \in 1..Len(w) |-> AnimThread(w[i])]

\* The callback is there and returns normally.
Delivered == mode = "stream" /\ ~sinkFails
EmittedFront(kinds) == IF Delivered THEN kinds \o q ELSE q
Emitted(kinds) == IF Delivered THEN q \o kinds ELSE q
\* Lines 771-786: which dequeued events the consumer hands to repo.add_event.
Persisted(kind) ==
  /\ kind \notin {"anim", "__final__"}
  /\ IF animMode \in {"sql", "true"}
       THEN kind # "rows"
       ELSE kind \in {"meta", "meta:effective_tables", "meta:evidence_spec", "rows:evidence"}

\* One operation on the session, made by the thread that runs the caller.
DbOp(thread, op, kind) == [thread |-> thread, op |-> op, kind |-> kind]

\* emit with repo.add_event in the callback itself, on the thread that
\* runs completion.
EmitPersisting(kinds) ==
  /\ q' = Emitted(kinds)
  /\ emitLog' = IF Delivered THEN emitLog \o kinds ELSE emitLog
  /\ anims' = IF Delivered THEN anims \o Started(kinds) ELSE anims
  /\ dbLog' = LET w == SelectSeq(kinds, Persisted)
              IN  IF Delivered
                    THEN dbLog \o [i \in 1..Len(w) |-> DbOp("worker", "add_event", w[i])]
                    ELSE dbLog

\* emit, lines 740-756: q.put of the event, then one animator thread for an
\* event _should_animate accepts; no session or repository call.
Emit(kinds) ==
  /\ q' = Emitted(kinds)
  /\ emitLog' = IF Delivered THEN emitLog \o kinds ELSE emitLog
  /\ anims' = IF Delivered THEN anims \o Started(kinds) ELSE anims
  /\ dbLog' = dbLog

\* Every call of the callback stands in `try: events(...) except Exception`,
\* which logs or passes.
SinkHandlerPropagates(e) == "raise"
SinkHandler(e) == "swallow"

\* An exception leaves completion.
Raise(e, agent) ==
  /\ pc' = "raised"
  /\ exc' = e
  /\ raisedBy' = agent

\* completion returns a ChatResponse.
Return(response) ==
  /\ pc' = "returned"
  /\ resp' = response

\* An exception of the callback leaves completion.
SinkPropagates == mode = "stream" /\ sinkFails /\ SinkHandler("Exception") = "raise"
SinkRaise ==
  /\ Raise("SinkError", raisedBy)
  /\ UNCHANGED <<ledgerVars, threadVars, cfgVars, r, rounds, evidence, plan, step, evForAnswer,
                 retrievalPayload, highlight, resp, http, calls, sqlExec, roundsStarted, probesDone,
                 retrievalRuns, axesFailed, satisfiedAt, countsAtStart, writerArgs, finalRows,
                 analystPrompt, carried, streamVars, entryVars, valVars, reqVars, extVars>>

\* _emit_evidence: returns at once without an event sink; otherwise it may
\* run the derived evidence query (errors swallowed) and emit its events.
EvidenceModes == {"nothing", "derived", "derived_empty", "fallback"}
EvidenceEvents(m) ==
  CASE m = "derived" -> <<"sql", "meta:evidence_spec", "rows:evidence">>
    [] m = "derived_empty" -> <<"sql">>
    [] m = "fallback" -> <<"meta:evidence_spec", "rows:evidence">>
    [] OTHER -> <<>>
EvidenceSql(m) == IF m \in {"derived", "derived_empty"} THEN 1 ELSE 0

\* The question asked in the runs of the round loop.
Question == <<"combien", " ", "de", " ", "ventes">>

\* `if not effective_tables:`
NoTablesNever(effective_tables) == FALSE
NoTables(effective_tables) == effective_tables = <<>>

NoTablesResp == [reply |-> "no_active_tables", provider |-> "nl2sql-acl", rounds_used |-> None, retrieval_rows |-> None]

\* Lines 215-276: the /sql passthrough.  The text after the prefix goes to
\* client.sql as it is; the rows (or the engine's error message) are the reply.
CompletionPassthrough ==
  /\ passSql' = DataEngineRuns(PassthroughSql(msg))
  /\ \E n \in DataEngineResults :
       IF n = None
         THEN \* client.sql raises
              /\ Raise("DataEngineError", "none")
              /\ sqlExec' = sqlExec + 1
              /\ Emit(<<"sql">>)
              /\ resp' = resp
         ELSE \E m \in (IF mode = "stream" THEN EvidenceModes ELSE {"nothing"}) :
              /\ sqlExec' = sqlExec + 1 + EvidenceSql(m)
              /\ Emit(<<"sql", "rows">> \o EvidenceEvents(m))
              /\ Return([reply |-> IF n > 0 THEN "passthrough_table" ELSE "passthrough_empty",
                         provider |-> "mindsdb-sql", rounds_used |-> None, retrieval_rows |-> None])
              /\ UNCHANGED <<exc, raisedBy>>
  /\ UNCHANGED <<r, rounds, schema>>

\* Lines 306-319: no table left after the two filters.
CompletionNoTables ==
  /\ Emit(<<"meta:effective_tables">>)
  /\ Return(NoTablesResp)
  /\ UNCHANGED <<r, rounds, schema, passSql, sqlExec, exc, raisedBy>>

\* Lines 320-324 and 371-415: build the schema, derive the rounds, emit the
\* plan, short-circuit on 0.
CompletionRounds(effective_tables) ==
  /\ schema' = effective_tables
  /\ LET rnds == DeriveRounds(Remaining(wctx, limits, counts, "explorateur"),
                              Remaining(wctx, limits, counts, "analyste"))
     IN  /\ rounds' = rnds
         /\ Emit(<<"meta:effective_tables", "plan">>)
         /\ IF rnds <= 0
              THEN /\ Return(DisabledResp)
                   /\ r' = r
              ELSE /\ pc' = "explore"
                   /\ r' = 1
                   /\ resp' = resp
  /\ UNCHANGED <<passSql, sqlExec, exc, raisedBy>>

\* ChatService.completion up to the round loop (lines 188-415).
CompletionStart ==
  /\ pc = "start"
  /\ IF SinkPropagates
       THEN SinkRaise
       ELSE /\ completionCalled' = TRUE
            /\ countsAtStart' = counts
            /\ LET effective_tables == EffectiveTables(DataTables, allowed, exclude)
               IN  IF IsSqlCommand(msg)
                     THEN CompletionPassthrough
                     ELSE IF NoTables(effective_tables)
                            THEN CompletionNoTables
                            ELSE CompletionRounds(effective_tables)
            /\ UNCHANGED <<ledgerVars, threadVars, cfgVars, evidence, plan, step, evForAnswer, retrievalPayload, highlight,
                           http, calls, roundsStarted, probesDone, retrievalRuns, axesFailed, satisfiedAt,
                           writerArgs, finalRows, cpc, wst, sse, analystPrompt, carried,
                           msg, routerMode, routerCap, routerCount, decision, allowed, exclude, valVars, reqVars, extVars>>

\* Lines 417-449: nl2sql.explore of round r.
RoundExplore ==
  /\ pc = "explore"
  /\ roundsStarted' = roundsStarted + 1
  /\ IF CaiRaises(wctx, limits, counts, "explorateur")
       THEN /\ IF ExploreHandler("AgentBudgetExceeded") = "raise"
                 THEN Raise("AgentBudgetExceeded", "explorateur") /\ resp' = resp
                 ELSE /\ Return([reply |-> "explore_error", provider |-> "nl2sql-explore",
                                 rounds_used |-> None, retrieval_rows |-> None])
                      /\ raisedBy' = "explorateur"
                      /\ exc' = exc
            /\ UNCHANGED <<counts, calls, plan, step, q, emitLog, anims, dbLog>>
       ELSE /\ counts' = CaiCounts(wctx, limits, counts, "explorateur")
            /\ calls' = [calls EXCEPT !["explorateur"] = @ + 1]
            /\ raisedBy' = raisedBy
            /\ \E k \in 0..NL2SQL_EXPLORE_MAX_STEPS :
                 /\ exc' = IF k = 0 /\ ExploreHandler("Exception") = "raise" THEN "Exception" ELSE exc
                 /\ IF k = 0
                      THEN \* LLM failure, unusable JSON, no valid query
                           /\ IF ExploreHandler("Exception") = "reply"
                                THEN Return([reply |-> "explore_error", provider |-> "nl2sql-explore",
                                             rounds_used |-> None, retrieval_rows |-> None])
                                ELSE pc' = "raised" /\ resp' = resp
                           /\ UNCHANGED <<plan, step, q, emitLog, anims, dbLog>>
                      ELSE /\ plan' = k
                           /\ step' = 1
                           /\ Emit(<<"plan">>)
                           /\ pc' = "probe"
                           /\ resp' = resp
  /\ UNCHANGED <<limits, lockHolder, threadVars, cfgVars, r, rounds, evidence, evForAnswer,
                 retrievalPayload, highlight, http, sqlExec, probesDone, retrievalRuns, axesFailed, satisfiedAt, countsAtStart,
                 writerArgs, finalRows, cpc, wst, sse>>
  /\ UNCHANGED <<analystPrompt, carried>>
  /\ UNCHANGED <<entryVars, valVars, reqVars, extVars>>

\* Lines 451-480: one probe of the plan is executed and recorded.
RoundProbe ==
  /\ pc = "probe"
  /\ step <= plan
  /\ IF SinkPropagates
       THEN SinkRaise
       ELSE /\ sqlExec' = sqlExec + 1
            /\ \E ok \in BOOLEAN :
                 IF ok
                   THEN /\ evidence' = EvidenceAfterProbe(evidence, r, step)
                        /\ probesDone' = probesDone + 1
                        /\ Emit(<<"sql", "rows">>)
                        /\ step' = step + 1
                        /\ pc' = IF step + 1 > plan THEN "axes" ELSE "probe"
                        /\ UNCHANGED <<exc, raisedBy>>
                   ELSE \* client.sql raises: nothing catches it inside completion
                        /\ Raise("DataEngineError", "none")
                        /\ Emit(<<"sql">>)
                        /\ UNCHANGED <<evidence, step, probesDone>>
            /\ UNCHANGED <<ledgerVars, threadVars, cfgVars, r, rounds, plan, evForAnswer, retrievalPayload, highlight,
                           resp, http, calls, roundsStarted, retrievalRuns, axesFailed, satisfiedAt, countsAtStart,
                           writerArgs, finalRows, cpc, wst, sse>>
            /\ UNCHANGED <<analystPrompt, carried>>
            /\ UNCHANGED <<entryVars, valVars, reqVars, extVars>>

\* The handlers around nl2sql.propose_axes: `except AgentBudgetExceeded:
\* raise`, then `except Exception`, which logs a warning and goes on.
AxesHandlerRaiseAll(e) == "raise"
AxesHandler(e) == IF e = "AgentBudgetExceeded" THEN "raise" ELSE "continue"

\* propose_axes raises e.
AxesFails(e) ==
  IF AxesHandler(e) = "raise"
    THEN /\ Raise(e, IF e = "AgentBudgetExceeded" THEN "axes" ELSE raisedBy)
         /\ axesFailed' = axesFailed
    ELSE /\ pc' = "analyst"
         /\ axesFailed' = axesFailed + 1
         /\ UNCHANGED <<exc, raisedBy>>

\* Lines 482-500: nl2sql.propose_axes, best effort.
RoundAxes ==
  /\ pc = "axes"
  /\ IF CaiRaises(wctx, limits, counts, "axes")
       THEN /\ AxesFails("AgentBudgetExceeded")
            /\ UNCHANGED <<counts, calls, q, emitLog, anims, dbLog>>
       ELSE /\ counts' = CaiCounts(wctx, limits, counts, "axes")
            /\ calls' = [calls EXCEPT !["axes"] = @ + 1]
            /\ \E ok \in BOOLEAN :
                 IF ok
                   THEN /\ Emit(<<"meta">>)
                        /\ pc' = "analyst"
                        /\ UNCHANGED <<exc, raisedBy, axesFailed>>
                   ELSE \* the LLM call fails or its answer is unusable
                        /\ AxesFails("Exception")
                        /\ UNCHANGED <<q, emitLog, anims, dbLog>>
  /\ UNCHANGED <<limits, lockHolder, threadVars, cfgVars, r, rounds, evidence, plan, step,
                 evForAnswer, retrievalPayload, highlight, resp, http, sqlExec, roundsStarted, probesDone, retrievalRuns,
                 satisfiedAt, countsAtStart, writerArgs, finalRows, cpc, wst, sse>>
  /\ UNCHANGED <<analystPrompt, carried>>
  /\ UNCHANGED <<entryVars, valVars, reqVars, extVars>>

\* Lines 502-520: nl2sql.generate_with_evidence.
RoundAnalyst ==
  /\ pc = "analyst"
  /\ IF CaiRaises(wctx, limits, counts, "analyste")
       THEN /\ Raise("AgentBudgetExceeded", "analyste")
            /\ UNCHANGED <<counts, calls, resp>>
       ELSE /\ counts' = CaiCounts(wctx, limits, counts, "analyste")
            /\ calls' = [calls EXCEPT !["analyste"] = @ + 1]
            /\ raisedBy' = raisedBy
            /\ \E ok \in BOOLEAN :
                 IF ok
                   THEN pc' = "final" /\ UNCHANGED <<resp, exc>>
                   ELSE \* LLM failure, no SELECT, SQL the validator rejects
                        IF AnalystHandler("Exception") = "reply"
                          THEN /\ Return([reply |-> "analyst_error", provider |-> "nl2sql-analyst",
                                          rounds_used |-> None, retrieval_rows |-> None])
                               /\ exc' = exc
                          ELSE pc' = "raised" /\ exc' = "Exception" /\ resp' = resp
  /\ analystPrompt' = CondenseEvidence(evidence, ANALYST_MAX_ITEMS)
  /\ evidence' = EvidenceAfterCondense(evidence, ANALYST_MAX_ITEMS)
  /\ UNCHANGED <<limits, lockHolder, threadVars, cfgVars, r, rounds, plan, step,
                 evForAnswer, retrievalPayload, highlight, http, sqlExec, roundsStarted, probesDone, retrievalRuns, axesFailed,
                 satisfiedAt, countsAtStart, writerArgs, finalRows, q, emitLog, anims, dbLog, cpc, wst, sse, carried>>
  /\ UNCHANGED <<entryVars, valVars, reqVars, extVars>>

\* Lines 521-555 and 621-632: the final query of round r, the satisfaction
\* test, and the move to the next round or to the "unsatisfied" reply.
RoundFinal ==
  /\ pc = "final"
  /\ IF SinkPropagates
       THEN SinkRaise
       ELSE /\ \E n \in (0..MaxRows) \cup {None} :
                 IF n = None
                   THEN \* client.sql(final_sql) raises
                        /\ Raise("DataEngineError", "none")
                        /\ sqlExec' = sqlExec + 1
                        /\ Emit(<<"sql">>)
                        /\ UNCHANGED <<r, evForAnswer, satisfiedAt, finalRows, resp>>
                   ELSE \E m \in (IF mode = "stream" THEN EvidenceModes ELSE {"nothing"}) :
                        /\ sqlExec' = sqlExec + 1 + EvidenceSql(m)
                        /\ Emit(<<"sql", "rows">> \o EvidenceEvents(m))
                        /\ finalRows' = [finalRows EXCEPT ![r] = n]
                        /\ UNCHANGED <<exc, raisedBy>>
                        /\ IF Satisfied(n, MinRows(minRowsCfg))
                             THEN /\ evForAnswer' = EvForAnswer(evidence, r)
                                  /\ satisfiedAt' = r
                                  /\ pc' = "preview"
                                  /\ UNCHANGED <<r, resp>>
                             ELSE /\ UNCHANGED <<evForAnswer, satisfiedAt>>
                                  /\ IF HasNextRound(r, rounds)
                                       THEN /\ r' = r + 1
                                            /\ pc' = "explore"
                                            /\ resp' = resp
                                       ELSE /\ r' = r
                                            /\ Return([reply |-> "unsatisfied", provider |-> "nl2sql-multiagent-empty",
                                                       rounds_used |-> None, retrieval_rows |-> None])
            /\ UNCHANGED <<ledgerVars, threadVars, cfgVars, rounds, evidence, plan, step, retrievalPayload, highlight,
                           http, calls, roundsStarted, probesDone, retrievalRuns, axesFailed, countsAtStart, writerArgs,
                           cpc, wst, sse>>
            /\ UNCHANGED analystPrompt
            /\ carried' = IF pc' = "explore" THEN evidence ELSE carried
            /\ UNCHANGED <<entryVars, valVars, reqVars, extVars>>

\* The preview with no look at the cap.
PreviewAllowedAlways(limit, count) == TRUE

\* chat_service.py line 565: `if limit is None or (count + 1) <= limit`.
PreviewAllowed(limit, count) == limit = None \/ count + 1 <= limit

\* Lines 556-573: the optional analyst preview (nl2sql.synthesize), called
\* only when it fits the cap; every exception is caught and logged.
RoundPreview ==
  /\ pc = "preview"
  /\ pc' = "retrieval"
  /\ LET limit == CtxLimit(wctx, limits, "analyste")
         count == CtxCount(wctx, counts, "analyste")
     IN  IF injectAnalyst /\ PreviewAllowed(limit, count)
           THEN IF CaiRaises(wctx, limits, counts, "analyste")
                  THEN \* swallowed by `except Exception` around the preview
                       /\ raisedBy' = "analyste"
                       /\ UNCHANGED <<counts, calls>>
                  ELSE /\ counts' = CaiCounts(wctx, limits, counts, "analyste")
                       /\ calls' = [calls EXCEPT !["analyste"] = @ + 1]
                       /\ raisedBy' = raisedBy
           ELSE UNCHANGED <<counts, calls, raisedBy>>
  /\ UNCHANGED <<limits, lockHolder, threadVars, cfgVars, r, rounds, evidence, plan, step,
                 evForAnswer, retrievalPayload, highlight, outVars, sqlExec, roundsStarted, probesDone,
                 retrievalRuns, axesFailed, satisfiedAt, countsAtStart, writerArgs, finalRows, streamVars>>
  /\ UNCHANGED <<analystPrompt, carried>>
  /\ UNCHANGED <<entryVars, valVars, reqVars, extVars>>

\* _retrieve_context when agent.run raises e: the exception goes on, or the
\* caller gets ([], "Mise en avant : synthèse indisponible (...)").
RetrievalFails(e) ==
  IF RetrieveContextHandler(e) = "raise"
    THEN /\ Raise(e, IF e = "AgentBudgetExceeded" THEN "retrieval" ELSE raisedBy)
         /\ UNCHANGED <<retrievalPayload, highlight>>
    ELSE /\ retrievalPayload' = 0
         /\ highlight' = "unavailable"
         /\ pc' = "write"
         /\ exc' = exc
         /\ raisedBy' = IF e = "AgentBudgetExceeded" THEN "retrieval" ELSE raisedBy

\* _summarize with the LLM called whatever the rows.
SummarizeCallsLlmAlways(rows) == TRUE

\* _summarize, retrieval_agent.py lines 81-82: `if not rows: return` the
\* canned sentence, before check_and_increment("retrieval") and the LLM call.
SummarizeCallsLlm(rows) == rows # 0

\* RetrievalAgent.run, lines 43-50: the meta event is emitted for a
\* non-empty payload only.
RetrievalEvents(rows) == IF rows # 0 THEN <<"meta">> ELSE <<>>

\* Lines 580-584, _retrieve_context and RetrievalAgent.run/_summarize.
\* found = rows returned by the similarity search (None = the search fails).
RoundRetrieval ==
  /\ pc = "retrieval"
  /\ retrievalRuns' = retrievalRuns + 1
  /\ \E found \in {None, 0, 1} :
       IF found = None
         THEN \* the similarity search raises
              /\ RetrievalFails("Exception")
              /\ UNCHANGED <<counts, calls, q, emitLog, anims, dbLog>>
         ELSE IF ~SummarizeCallsLlm(found)
           THEN \* canned sentence, no LLM call, nothing charged
                /\ retrievalPayload' = 0
                /\ highlight' = "canned"
                /\ pc' = "write"
                /\ UNCHANGED <<counts, calls, exc, raisedBy, q, emitLog, anims, dbLog>>
           ELSE IF CaiRaises(wctx, limits, counts, "retrieval")
             THEN /\ RetrievalFails("AgentBudgetExceeded")
                  /\ Emit(RetrievalEvents(found))
                  /\ UNCHANGED <<counts, calls>>
             ELSE /\ counts' = CaiCounts(wctx, limits, counts, "retrieval")
                  /\ calls' = [calls EXCEPT !["retrieval"] = @ + 1]
                  /\ Emit(RetrievalEvents(found))
                  /\ \E ok \in BOOLEAN :
                       IF ok
                         THEN /\ retrievalPayload' = found
                              /\ highlight' = "summary"
                              /\ pc' = "write"
                              /\ UNCHANGED <<exc, raisedBy>>
                         ELSE \* the LLM call fails or answers nothing usable
                              RetrievalFails("Exception")
  /\ UNCHANGED <<limits, lockHolder, threadVars, cfgVars, r, rounds, evidence, plan, step,
                 evForAnswer, resp, http, sqlExec, roundsStarted, probesDone, axesFailed, satisfiedAt,
                 countsAtStart, writerArgs, finalRows, cpc, wst, sse>>
  /\ UNCHANGED <<analystPrompt, carried>>
  /\ UNCHANGED <<entryVars, valVars, reqVars, extVars>>

\* Lines 609-620: the reply when nl2sql.write raises anything but
\* AgentBudgetExceeded.
WriterErrorRespNoRows(rows) == [reply |-> "writer_error", provider |-> "nl2sql-multiagent-synth", rounds_used |-> None, retrieval_rows |-> None]
WriterErrorResp(rows) == [reply |-> "writer_error", provider |-> "nl2sql-multiagent-synth", rounds_used |-> None, retrieval_rows |-> rows]

\* Lines 585-620: nl2sql.write and the reply built from it.
WriterOutcomes == {"text", "blank", "fail"}
RoundWrite ==
  /\ pc = "write"
  /\ IF CaiRaises(wctx, limits, counts, "redaction")
       THEN /\ Raise("AgentBudgetExceeded", "redaction")
            /\ UNCHANGED <<counts, calls, writerArgs, resp>>
       ELSE /\ counts' = CaiCounts(wctx, limits, counts, "redaction")
            /\ calls' = [calls EXCEPT !["redaction"] = @ + 1]
            /\ writerArgs' = [evidence |-> evForAnswer, retrieval |-> retrievalPayload, called |-> TRUE]
            /\ UNCHANGED <<exc, raisedBy>>
            /\ \E o \in WriterOutcomes :
                 CASE o = "text" ->
                        Return([reply |-> "writer_text", provider |-> "nl2sql-multiagent",
                                rounds_used |-> WriterRoundsUsed(r), retrieval_rows |-> retrievalPayload])
                   [] o = "blank" ->
                        Return([reply |-> "writer_fallback", provider |-> "nl2sql-multiagent",
                                rounds_used |-> WriterRoundsUsed(r), retrieval_rows |-> retrievalPayload])
                   [] o = "fail" ->
                        Return(WriterErrorResp(retrievalPayload))
  /\ UNCHANGED <<limits, lockHolder, threadVars, cfgVars, r, rounds, evidence, plan, step,
                 evForAnswer, retrievalPayload, highlight, http, sqlExec, roundsStarted, probesDone, retrievalRuns, axesFailed,
                 satisfiedAt, countsAtStart, finalRows, streamVars>>
  /\ UNCHANGED <<analystPrompt, carried>>
  /\ UNCHANGED <<entryVars, valVars, reqVars, extVars>>

(***************************************************************************)
(* chat_completion: api/routes/v1/chat.py, lines 302-325                   *)
(***************************************************************************)
\* The status the endpoint answers with, from how completion ended.
BoundaryStatus(ended, e) ==
  IF ended = "returned" THEN 200
  ELSE IF e = "AgentBudgetExceeded" THEN 429
  ELSE IF e = "OpenAIBackendError" THEN 502
  ELSE 500

ChatCompletionBoundary ==
  /\ mode = "sync"
  /\ pc \in {"returned", "raised"}
  /\ http = 0
  /\ http' = BoundaryStatus(pc, exc)
  /\ UNCHANGED <<ledgerVars, threadVars, cfgVars, loopVars, resp, exc, histVars, streamVars>>
  /\ UNCHANGED <<entryVars, valVars, reqVars, extVars>>

\* No request has been received.
Requests == 1..NumRequests
NoObject == 0
RequestsIdle ==
  /\ heap = [o \in 1..MaxObjects |-> ZeroCounts]
  /\ nextObj = 1
  /\ ctxCounts = [rq \in Requests |-> NoObject]
  /\ rqPc = [rq \in Requests |-> "new"]
  /\ rqMade = [rq \in Requests |-> 0]
  /\ rqOwn = [rq \in Requests |-> ZeroCounts]

\* The event sink works, no animator has run, the configuration table is
\* empty and _group_by_day has not been called.
NoCall == [op |-> "none"]
\* time.time() when the request arrives: last_anim_ts starts at 0.0 and the
\* epoch clock is far beyond anim_min_interval.
StartTime == AnimMinInterval
AnimIdle ==
  /\ clock = StartTime
  /\ lastAnimTs = 0
  /\ animPuts = <<>>
TicketsIdle ==
  /\ tcRows = <<>>
  /\ tcLast = NoCall
LoopIdle ==
  /\ entries = <<>>
  /\ today = 0
  /\ maxDays = 1
  /\ groups = <<>>
NoReply == [json |-> "none", queries |-> <<>>]
Pending == [status |-> "pending", out |-> <<>>]
NoStatement == [list |-> <<>>, from |-> FALSE, where |-> FALSE, setop |-> "none", second |-> <<>>, tail |-> <<>>]
NoEvidence == [status |-> "pending", derived |-> <<>>, executed |-> <<>>]
ExploreIdle ==
  /\ exploreReply = NoReply
  /\ exploreOut = Pending
EvidenceIdle ==
  /\ baseSql = NoStatement
  /\ evidenceOut = NoEvidence
NoRequest == 0
NoKey == "none"
TicketKeys == {"1:k1", "1:k2"}
LockObjects == 1..NumRequests
LockIdle ==
  /\ ticketContextCacheLocks = [k \in TicketKeys |-> NoObject]
  /\ locksMade = 0
  /\ lockOwner = [o \in LockObjects |-> NoRequest]
  /\ lkey = [rq \in Requests |-> NoKey]
  /\ lpc = [rq \in Requests |-> "idle"]
  /\ tlock = [rq \in Requests |-> NoObject]
  /\ ticketCache = NoKey
AuxIdle ==
  /\ ExploreIdle
  /\ EvidenceIdle
  /\ LockIdle
ExtIdle ==
  /\ AnimIdle
  /\ TicketsIdle
  /\ LoopIdle
  /\ AuxIdle

\* No SQL candidate is being validated.
ValidatorIdle ==
  /\ llmText = <<>>
  /\ vagent = "none"
  /\ vpc = "idle"
  /\ generated = <<>>
  /\ executed = <<>>

\* State after reset_from_settings, with the threads of the request about
\* to call the ledger.
\* The orchestrator and the stream before any request work has started.
OrchIdleFor(allowed_tables, exclude_tables) ==
  /\ mode = "none"
  /\ wctx = "request"
  /\ minRowsCfg = 1
  /\ injectAnalyst = FALSE
  /\ animMode = "sql"
  /\ pc = "idle"
  /\ r = 0
  /\ rounds = 0
  /\ evidence = <<>>
  /\ plan = 0
  /\ step = 0
  /\ evForAnswer = <<>>
  /\ retrievalPayload = 0
  /\ highlight = "none"
  /\ resp = NoResp
  /\ exc = "none"
  /\ http = 0
  /\ calls = ZeroCounts
  /\ sqlExec = 0
  /\ roundsStarted = 0
  /\ probesDone = 0
  /\ retrievalRuns = 0
  /\ axesFailed = 0
  /\ satisfiedAt = 0
  /\ raisedBy = "none"
  /\ countsAtStart = ZeroCounts
  /\ writerArgs = NoArgs
  /\ finalRows = [i \in 1..(MaxCap + 1) |-> None]
  /\ analystPrompt = <<>>
  /\ carried = <<>>
  /\ q = <<>>
  /\ emitLog = <<>>
  /\ anims = <<>>
  /\ dbLog = <<>>
  /\ cpc = "idle"
  /\ wst = "notstarted"
  /\ sse = <<>>
  /\ msg = Question
  /\ routerMode = "false"
  /\ routerCap = None
  /\ routerCount = 0
  /\ decision = NoDecision
  /\ allowed = allowed_tables
  /\ exclude = exclude_tables
  /\ schema = <<>>
  /\ completionCalled = FALSE
  /\ passSql = <<>>
OrchIdle == OrchIdleFor(AllTables, {})

\* No thread of the concurrent ledger scenario exists.
ThreadsIdle ==
  /\ lockHolder = NoThread
  /\ tpc = [t \in Threads |-> "idle"]
  /\ tagent = [t \in Threads |-> "explorateur"]
  /\ tcur = [t \in Threads |-> 0]
  /\ quota = [t \in Threads |-> 0]
  /\ made = [t \in Threads |-> 0]
  /\ okCalls = ZeroCounts
  /\ rejCalls = ZeroCounts

InitLedger ==
  /\ OrchIdle
  /\ ValidatorIdle
  /\ RequestsIdle
  /\ ExtIdle
  /\ sinkFails = FALSE
  /\ limits \in [Agents -> CapValues]
  /\ \A a \in Agents \ LedgerAgents : limits[a] = None
  /\ counts = ZeroCounts
  /\ lockHolder = NoThread
  /\ tpc = [t \in Threads |-> "idle"]
  /\ tagent = [t \in Threads |-> "explorateur"]
  /\ tcur = [t \in Threads |-> 0]
  /\ quota \in [Threads -> 0..MaxCalls]
  /\ made = [t \in Threads |-> 0]
  /\ okCalls = ZeroCounts
  /\ rejCalls = ZeroCounts

NextLedger ==
  \E t \in Threads :
    \/ \E a \in LedgerAgents : CaiEnter(t, a)
    \/ CaiAcquire(t)
    \/ CaiLoad(t)
    \/ CaiCommit(t)
    \/ CaiReject(t)

SpecLedger == InitLedger /\ [][NextLedger]_vars

(***************************************************************************)
(* POST /chat/completions: reset_from_settings, then completion on the     *)
(* request thread, then the mapping of its outcome to an HTTP status.      *)
(***************************************************************************)
SmallCaps == {None, 0, 1}
MinRowsSettings == (-1)..MaxRows

\* Counter maps a context can hold when completion starts: the ledger
\* never lets a capped counter pass its cap.
PriorCounts ==
  {c \in [Agents -> 0..MaxPrior] :
     /\ \A a \in Agents \ LedgerAgents : c[a] = 0
     /\ \A a \in LedgerAgents : c[a] <= Max(0, limits[a])}

Init ==
  /\ ThreadsIdle
  /\ limits \in [Agents -> CapValues]
  /\ \A a \in Agents \ LedgerAgents : limits[a] \in SmallCaps
  /\ counts \in PriorCounts
  /\ mode = "sync"
  /\ wctx = "request"
  /\ minRowsCfg \in MinRowsSettings
  /\ injectAnalyst \in BOOLEAN
  /\ animMode = "sql"
  /\ pc = "start"
  /\ r = 0
  /\ rounds = 0
  /\ evidence = <<>>
  /\ plan = 0
  /\ step = 0
  /\ evForAnswer = <<>>
  /\ retrievalPayload = 0
  /\ highlight = "none"
  /\ resp = NoResp
  /\ exc = "none"
  /\ http = 0
  /\ calls = ZeroCounts
  /\ sqlExec = 0
  /\ roundsStarted = 0
  /\ probesDone = 0
  /\ retrievalRuns = 0
  /\ axesFailed = 0
  /\ satisfiedAt = 0
  /\ raisedBy = "none"
  /\ countsAtStart = ZeroCounts
  /\ writerArgs = NoArgs
  /\ finalRows = [i \in 1..(MaxCap + 1) |-> None]
  /\ analystPrompt = <<>>
  /\ carried = <<>>
  /\ q = <<>>
  /\ emitLog = <<>>
  /\ anims = <<>>
  /\ dbLog = <<>>
  /\ cpc = "idle"
  /\ wst = "notstarted"
  /\ sse = <<>>
  /\ msg = Question
  /\ routerMode = "rule"
  /\ routerCap = None
  /\ routerCount = 0
  /\ decision = DecideRule(Question)
  /\ allowed = AllTables
  /\ exclude = {}
  /\ schema = <<>>
  /\ completionCalled = FALSE
  /\ passSql = <<>>
  /\ ValidatorIdle
  /\ RequestsIdle
  /\ ExtIdle
  /\ sinkFails = FALSE

NextCompletion ==
  \/ CompletionStart
  \/ RoundExplore
  \/ RoundProbe
  \/ RoundAxes
  \/ RoundAnalyst
  \/ RoundFinal
  \/ RoundPreview
  \/ RoundRetrieval
  \/ RoundWrite

Next ==
  \/ NextCompletion
  \/ ChatCompletionBoundary

Spec == Init /\ [][Next]_vars

(***************************************************************************)
(* POST /chat/stream: chat_stream and its generator, NL->SQL branch        *)
(* (api/routes/v1/chat.py, lines 348-360 and 734-822).                     *)
(***************************************************************************)
\* threading.Thread(target=worker).start(): the target runs in a context of
\* its own, in which no ContextVar of the starting thread is set.
NewThreadContextInherit(parent) == parent
NewThreadContext(parent) == "empty"

\* The consumer forwards an event unless the animation mode filters it out.
Forwarded(kind) == ~(animMode = "false" /\ kind \in {"sql", "plan"})

\* generate(): first meta event, queue created, worker thread started.
StreamStart ==
  /\ mode = "stream"
  /\ cpc = "begin"
  /\ sse' = Append(sse, "meta")
  /\ wst' = "running"
  /\ wctx' = NewThreadContext("request")
  /\ pc' = "start"
  /\ cpc' = "consume"
  /\ UNCHANGED <<ledgerVars, threadVars, mode, minRowsCfg, injectAnalyst, animMode, r, rounds,
                 evidence, plan, step, evForAnswer, retrievalPayload, highlight, outVars, histVars, q, emitLog, anims, dbLog>>
  /\ UNCHANGED <<entryVars, valVars, reqVars, extVars>>

\* worker(): completion returned; the response is stored and the final
\* marker is put on the queue.
WorkerFinish ==
  /\ wst = "running"
  /\ pc = "returned"
  /\ q' = Append(q, "__final__")
  /\ emitLog' = emitLog
  /\ anims' = anims
  /\ dbLog' = dbLog
  /\ wst' = "finished"
  /\ UNCHANGED <<ledgerVars, threadVars, cfgVars, loopVars, outVars, histVars, cpc, sse>>
  /\ UNCHANGED <<entryVars, valVars, reqVars, extVars>>

\* worker(): completion raised; nothing in worker catches it, the thread
\* ends and the final marker is never put.
WorkerDie ==
  /\ wst = "running"
  /\ pc = "raised"
  /\ wst' = "died"
  /\ UNCHANGED <<ledgerVars, threadVars, cfgVars, loopVars, outVars, histVars, q, emitLog, anims, dbLog, cpc, sse>>
  /\ UNCHANGED <<entryVars, valVars, reqVars, extVars>>

\* Consumer loop: item = q.get() blocks until the queue has an item.
ConsumeEvent ==
  /\ cpc = "consume"
  /\ q # <<>>
  /\ LET kind == Head(q)
     IN  /\ q' = Tail(q)
         /\ emitLog' = emitLog
         /\ anims' = anims
         /\ dbLog' = IF Persisted(kind) THEN Append(dbLog, DbOp("consumer", "add_event", kind)) ELSE dbLog
         /\ IF kind = "__final__"
              THEN cpc' = "finalize" /\ sse' = sse
              ELSE /\ cpc' = "consume"
                   /\ sse' = IF Forwarded(kind) THEN Append(sse, kind) ELSE sse
  /\ UNCHANGED <<ledgerVars, threadVars, cfgVars, loopVars, outVars, histVars, wst>>
  /\ UNCHANGED <<entryVars, valVars, reqVars, extVars>>

\* After the loop: the reply is sent as delta events, then done.
StreamFinalize ==
  /\ cpc = "finalize"
  /\ sse' = sse \o <<"delta", "done">>
  /\ dbLog' = Append(dbLog, DbOp("consumer", "append_message", "assistant"))
  /\ cpc' = "done"
  /\ UNCHANGED <<ledgerVars, threadVars, cfgVars, loopVars, outVars, histVars, q, emitLog, anims, wst>>
  /\ UNCHANGED <<entryVars, valVars, reqVars, extVars>>

StreamInit(animModes, message, sinks) ==
  /\ ThreadsIdle
  /\ limits \in [Agents -> SmallCaps]
  /\ \A a \in Agents \ {"explorateur"} : limits[a] = None
  /\ counts = ZeroCounts
  /\ mode = "stream"
  /\ wctx = "request"
  /\ minRowsCfg \in MinRowsSettings
  /\ injectAnalyst \in BOOLEAN
  /\ animMode \in animModes
  /\ pc = "idle"
  /\ r = 0
  /\ rounds = 0
  /\ evidence = <<>>
  /\ plan = 0
  /\ step = 0
  /\ evForAnswer = <<>>
  /\ retrievalPayload = 0
  /\ highlight = "none"
  /\ resp = NoResp
  /\ exc = "none"
  /\ http = 0
  /\ calls = ZeroCounts
  /\ sqlExec = 0
  /\ roundsStarted = 0
  /\ probesDone = 0
  /\ retrievalRuns = 0
  /\ axesFailed = 0
  /\ satisfiedAt = 0
  /\ raisedBy = "none"
  /\ countsAtStart = ZeroCounts
  /\ writerArgs = NoArgs
  /\ finalRows = [i \in 1..(MaxCap + 1) |-> None]
  /\ analystPrompt = <<>>
  /\ carried = <<>>
  /\ q = <<>>
  /\ emitLog = <<>>
  /\ anims = <<>>
  /\ dbLog = <<>>
  /\ cpc = "begin"
  /\ wst = "notstarted"
  /\ sse = <<>>
  /\ msg = message
  /\ routerMode = "rule"
  /\ routerCap = None
  /\ routerCount = 0
  /\ decision = DecideRule(message)
  /\ allowed = AllTables
  /\ exclude = {}
  /\ schema = <<>>
  /\ completionCalled = FALSE
  /\ passSql = <<>>
  /\ ValidatorIdle
  /\ RequestsIdle
  /\ ExtIdle
  /\ sinkFails \in sinks

InitStream == StreamInit({"sql", "false"}, Question, BOOLEAN)

WorkerStep ==
  \/ NextCompletion
  \/ WorkerFinish
  \/ WorkerDie

ConsumerStep ==
  \/ StreamStart
  \/ ConsumeEvent
  \/ StreamFinalize

NextStream ==
  \/ WorkerStep
  \/ ConsumerStep

SpecStream == InitStream /\ [][NextStream]_vars

(***************************************************************************)
(* The router gate of both endpoints (api/routes/v1/chat.py, lines 273-301 *)
(* and 583-631), then the whole request from the gate on.                  *)
(***************************************************************************)
\* _router_decision_or_none returns None without calling the router.
RouterBypassed(rmode, text) == rmode = "false" \/ IsSqlCommand(text)

\* What RouterService.decide can give: the rule decision, or under an LLM
\* mode any decision, or OpenAIBackendError.
RouterError == [allow |-> FALSE, route |-> "backend_error", confidence |-> 0]
RouterOutcomes(rmode, text) ==
  IF rmode = "rule" THEN {DecideRule(text)} ELSE LlmDecisions \cup {RouterError}

\* `if decision is not None: ... if not decision.allow:`
GateDeflectsNever(d) == FALSE
GateDeflects(d) == d # NoDecision /\ ~d.allow

\* check_and_increment("router") of _decide_llm raises.
RouterBudgetRaises == routerMode = "llm" /\ routerCap # None /\ Exceeds(routerCount, routerCap)
RouterCharged == IF routerMode = "llm" /\ routerCap # None THEN routerCount + 1 ELSE routerCount

DeflectionResp == [reply |-> "deflection", provider |-> "router", rounds_used |-> None, retrieval_rows |-> None]

\* chat_completion, lines 273-301.  Only OpenAIBackendError is caught around
\* the router call; any other exception leaves the endpoint (status 500).
ChatCompletionGate ==
  /\ mode = "sync"
  /\ pc = "gate"
  /\ IF RouterBypassed(routerMode, msg)
       THEN /\ pc' = "start"
            /\ UNCHANGED <<decision, routerCount, resp, exc, http>>
       ELSE IF RouterBudgetRaises
         THEN /\ pc' = "gate_error"
              /\ exc' = "AgentBudgetExceeded"
              /\ http' = 500
              /\ UNCHANGED <<decision, routerCount, resp>>
         ELSE /\ routerCount' = RouterCharged
              /\ \E d \in RouterOutcomes(routerMode, msg) :
                   IF d = RouterError
                     THEN /\ pc' = "gate_error"
                          /\ exc' = "OpenAIBackendError"
                          /\ http' = 502
                          /\ UNCHANGED <<decision, resp>>
                     ELSE /\ decision' = d
                          /\ exc' = exc
                          /\ IF GateDeflects(d)
                               THEN /\ pc' = "deflected"
                                    /\ resp' = DeflectionResp
                                    /\ http' = 200
                               ELSE /\ pc' = "start"
                                    /\ UNCHANGED <<resp, http>>
  /\ UNCHANGED <<ledgerVars, threadVars, cfgVars, r, rounds, evidence, plan, step, evForAnswer,
                 retrievalPayload, highlight, histVars, streamVars, msg, routerMode, routerCap, allowed, exclude,
                 schema, completionCalled, passSql, valVars, reqVars, extVars>>

\* chat_stream.generate, lines 583-631.
StreamGate ==
  /\ mode = "stream"
  /\ cpc = "gate"
  /\ IF RouterBypassed(routerMode, msg)
       THEN /\ cpc' = "begin"
            /\ UNCHANGED <<decision, routerCount, sse>>
       ELSE IF RouterBudgetRaises
         THEN /\ cpc' = "done"
              /\ sse' = <<"error">>
              /\ UNCHANGED <<decision, routerCount>>
         ELSE /\ routerCount' = RouterCharged
              /\ \E d \in RouterOutcomes(routerMode, msg) :
                   IF d = RouterError
                     THEN /\ cpc' = "done"
                          /\ sse' = <<"error">>
                          /\ decision' = decision
                     ELSE /\ decision' = d
                          /\ IF GateDeflects(d)
                               THEN /\ cpc' = "done"
                                    /\ sse' = <<"meta", "delta", "done">>
                               ELSE /\ cpc' = "begin"
                                    /\ sse' = sse
  /\ dbLog' = IF cpc' = "done" /\ sse' # <<"error">>
                THEN Append(dbLog, DbOp("consumer", "append_message", "assistant"))
                ELSE dbLog
  /\ UNCHANGED <<ledgerVars, threadVars, cfgVars, loopVars, outVars, histVars, q, emitLog, anims, wst,
                 msg, routerMode, routerCap, allowed, exclude, schema, completionCalled, passSql, valVars, reqVars, extVars>>

SalutCaVa == <<"salut", ",", " ", "ça", " ", "va", " ", "?">>
SalutCaVaPlain == <<"Salut", ",", " ", "ça", " ", "va">>
SqlSelectOne == <<"/", "sql", " ", "select", " ", "1">>
SqlDropTable == <<"/", "SQL", " ", "drop", " ", "table", " ", "t">>
Messages ==
  {Question, SalutCaVa, SalutCaVaPlain, <<"salut">>, <<" ">>, SqlSelectOne, SqlDropTable,
   <<"/", "sql", " ">>, <<" ", "/", "sql", " ", "select", " ", "1">>,
   <<"bonjour", " ", "à", " ", "tous", " ", "les", " ", "amis">>}
AllowedSettings == {AllTables} \cup SUBSET {"a", "b", "c"}
ExcludeSettings == SUBSET {"A", " b ", " "}

InitChat ==
  /\ ThreadsIdle
  /\ limits \in [Agents -> SmallCaps]
  /\ \A a \in Agents \ {"explorateur"} : limits[a] = None
  /\ counts = ZeroCounts
  /\ mode \in {"sync", "stream"}
  /\ wctx = "request"
  /\ minRowsCfg = 1
  /\ injectAnalyst = FALSE
  /\ animMode = "sql"
  /\ pc = IF mode = "sync" THEN "gate" ELSE "idle"
  /\ r = 0
  /\ rounds = 0
  /\ evidence = <<>>
  /\ plan = 0
  /\ step = 0
  /\ evForAnswer = <<>>
  /\ retrievalPayload = 0
  /\ highlight = "none"
  /\ resp = NoResp
  /\ exc = "none"
  /\ http = 0
  /\ calls = ZeroCounts
  /\ sqlExec = 0
  /\ roundsStarted = 0
  /\ probesDone = 0
  /\ retrievalRuns = 0
  /\ axesFailed = 0
  /\ satisfiedAt = 0
  /\ raisedBy = "none"
  /\ countsAtStart = ZeroCounts
  /\ writerArgs = NoArgs
  /\ finalRows = [i \in 1..(MaxCap + 1) |-> None]
  /\ analystPrompt = <<>>
  /\ carried = <<>>
  /\ q = <<>>
  /\ emitLog = <<>>
  /\ anims = <<>>
  /\ dbLog = <<>>
  /\ cpc = IF mode = "stream" THEN "gate" ELSE "idle"
  /\ wst = "notstarted"
  /\ sse = <<>>
  /\ msg \in Messages
  /\ routerMode \in {"rule", "llm", "false"}
  /\ routerCap \in {None, 0, 1}
  /\ routerMode # "llm" => routerCap = None
  /\ routerCount = 0
  /\ decision = NoDecision
  /\ allowed \in AllowedSettings
  /\ exclude \in ExcludeSettings
  /\ (allowed # AllTables \/ exclude # {}) => (routerMode = "false" /\ msg = Question)
  /\ (mode = "stream" \/ msg # Question) => limits["explorateur"] = None
  /\ schema = <<>>
  /\ completionCalled = FALSE
  /\ passSql = <<>>
  /\ ValidatorIdle
  /\ RequestsIdle
  /\ ExtIdle
  /\ sinkFails = FALSE

NextChat ==
  \/ ChatCompletionGate
  \/ StreamGate
  \/ Next
  \/ NextStream

SpecChat == InitChat /\ [][NextChat]_vars

(***************************************************************************)
(* The animator threads: api/routes/v1/chat.py, 549-552, 640-657, 740-756  *)
(***************************************************************************)
\* _anim, lines 645-650 (the same at 744-749): now = time.time() and the
\* interval test against last_anim_ts.
AnimCheck(i) ==
  /\ anims[i].pc = "start"
  /\ anims' = IF clock - lastAnimTs < AnimMinInterval
                THEN [anims EXCEPT ![i].pc = "done", ![i].out = "throttled"]
                ELSE [anims EXCEPT ![i].pc = "translate"]
  /\ UNCHANGED <<ledgerVars, threadVars, cfgVars, loopVars, outVars, histVars, q, emitLog, dbLog,
                 cpc, wst, sse, entryVars, valVars, reqVars, extVars>>

\* AnimatorAgent.translate, services/animator_agent.py lines 68-113: what a
\* call meets: a sentence, an empty text, OpenAIBackendError of the client,
\* or any other exception (RuntimeError of _client_and_model, lines 33-36).
\* check_and_increment("animator") runs in the context of the _anim thread,
\* where no limit is bound, and returns without counting.
TranslateOutcomes == {"text", "empty", "OpenAIBackendError", "RuntimeError"}

\* translate: the sentence, None (lines 100-101 and 108-109), or the
\* exception translate does not catch.
Translate(o) ==
  IF o = "text" THEN "text"
  ELSE IF o \in {"empty", "OpenAIBackendError"} THEN "none"
  ELSE o

\* _anim, lines 646-652: `except Exception: msg = None`.
AnimMessage(o) == IF Translate(o) = "text" THEN "text" ELSE "none"

\* A failure of the animator reported on the stream.
AnimPutReportsFailure(queue, message) ==
  Append(queue, IF message = "text" THEN "anim" ELSE "error")

\* _anim, lines 653-655: `if msg: ... q.put(("anim", {"message": msg}))`.
AnimPut(queue, message) == IF message = "text" THEN Append(queue, "anim") ELSE queue

\* _anim, lines 650-656 (the same at 749-755): animator.translate returns a
\* message, or nothing (None, or an exception that _anim catches); with a
\* message the thread writes last_anim_ts and puts the 'anim' event.
AnimTranslate(i) ==
  /\ anims[i].pc = "translate"
  /\ \E o \in TranslateOutcomes :
       /\ anims' = [anims EXCEPT ![i].pc = "done", ![i].out = o]
       /\ q' = AnimPut(q, AnimMessage(o))
       /\ IF AnimMessage(o) = "text"
            THEN /\ lastAnimTs' = clock
                 /\ animPuts' = Append(animPuts, clock)
            ELSE UNCHANGED <<lastAnimTs, animPuts>>
  /\ UNCHANGED <<ledgerVars, threadVars, cfgVars, loopVars, outVars, histVars, emitLog, dbLog,
                 cpc, wst, sse, entryVars, valVars, reqVars, restVars, clock>>

\* Time passes.
Tick ==
  /\ clock < StartTime + MaxTicks
  /\ clock' = clock + 1
  /\ UNCHANGED <<ledgerVars, threadVars, cfgVars, loopVars, outVars, histVars, streamVars,
                 entryVars, valVars, reqVars, restVars, lastAnimTs, animPuts>>

\* A '/sql' request on the streaming endpoint with ANIMATION_MODE=true.
InitAnim ==
  /\ StreamInit({"true"}, SqlSelectOne, {FALSE})
  /\ limits["explorateur"] = None
  /\ injectAnalyst = FALSE
  /\ minRowsCfg = 1

NextAnim ==
  \/ StreamStart
  \/ CompletionStart
  \/ WorkerFinish
  \/ WorkerDie
  \/ ConsumeEvent
  \/ StreamFinalize
  \/ \E i \in 1..Len(anims) : AnimCheck(i)
  \/ \E i \in 1..Len(anims) : AnimTranslate(i)
  \/ Tick

SpecAnim == InitAnim /\ [][NextAnim]_vars

(***************************************************************************)
(* Ticket context configuration: repositories/ticket_context_repository.py *)
(* A row is written with updated_at = now() on insert and on update, so    *)
(* the row save_config writes is the last in the order (updated_at, id).   *)
(* title_column and date_column are written exactly as text_column is.     *)
(***************************************************************************)
TableNames == {"tickets_a", "TICKETS_A", "tickets_b"}
ColumnNames == {"text", "body", "content"}

\* get_config, lines 17-22: the first row by updated_at desc, id desc.
GetConfigOf(rows) == IF rows = <<>> THEN None ELSE rows[Len(rows)]

\* save_config, lines 32-61: the row get_config returns, whatever its table,
\* is overwritten; a row is inserted only into an empty table.
SavedRows(rows, table_name, text_column) ==
  IF rows = <<>>
    THEN Append(rows, [id |-> Len(rows) + 1, table_name |-> table_name, text_column |-> text_column])
    ELSE [rows EXCEPT ![Len(rows)] = [@ EXCEPT !.table_name = table_name, !.text_column = text_column]]

SaveConfig ==
  \E table_name \in TableNames, text_column \in ColumnNames :
    /\ tcRows' = SavedRows(tcRows, table_name, text_column)
    /\ tcLast' = [op |-> "save_config", table_name |-> table_name, text_column |-> text_column,
                  before |-> tcRows, result |-> GetConfigOf(tcRows').id, raised |-> ""]
    /\ UNCHANGED <<ledgerVars, threadVars, cfgVars, loopVars, outVars, histVars, streamVars,
                   entryVars, valVars, reqVars, clock, lastAnimTs, animPuts, sinkFails, auxVars,
                   entries, today, maxDays, groups>>

GetConfig ==
  /\ tcLast' = [op |-> "get_config", table_name |-> "", text_column |-> "", before |-> tcRows,
                result |-> IF tcRows = <<>> THEN None ELSE GetConfigOf(tcRows).id, raised |-> ""]
  /\ UNCHANGED <<ledgerVars, threadVars, cfgVars, loopVars, outVars, histVars, streamVars,
                 entryVars, valVars, reqVars, clock, lastAnimTs, animPuts, sinkFails, auxVars, tcRows,
                 entries, today, maxDays, groups>>

\* The class defines get_config and save_config only (lines 13-61): the
\* attribute lookup of any other method raises AttributeError.
GetConfigByTable ==
  \E table_name \in TableNames :
    /\ tcLast' = [op |-> "get_config_by_table", table_name |-> table_name, text_column |-> "",
                  before |-> tcRows, result |-> None, raised |-> "AttributeError"]
    /\ UNCHANGED <<ledgerVars, threadVars, cfgVars, loopVars, outVars, histVars, streamVars,
                   entryVars, valVars, reqVars, clock, lastAnimTs, animPuts, sinkFails, auxVars, tcRows,
                   entries, today, maxDays, groups>>

InitTickets ==
  /\ ThreadsIdle
  /\ limits = [a \in Agents |-> None]
  /\ counts = ZeroCounts
  /\ OrchIdle
  /\ ValidatorIdle
  /\ RequestsIdle
  /\ AnimIdle
  /\ TicketsIdle
  /\ LoopIdle
  /\ AuxIdle
  /\ sinkFails = FALSE

NextTickets ==
  \/ SaveConfig
  \/ GetConfig
  \/ GetConfigByTable

SpecTickets == InitTickets /\ [][NextTickets]_vars

(***************************************************************************)
(* Daily groups of the loop summaries: services/loop_service.py, 236-270.  *)
(* A date is a day number; an entry is its date, and the items of a group  *)
(* are the positions of its entries in the argument.                       *)
(***************************************************************************)
MaxDay == 3
MaxEntries == 3
MaxLoopDays == 2
Days == 0..MaxDay

RECURSIVE SortedDesc(_)
\* sorted(buckets.keys(), reverse=True)
SortedDesc(S) ==
  IF S = {} THEN <<>>
  ELSE LET m == CHOOSE x \in S : \A y \in S : y <= x
       IN  <<m>> \o SortedDesc(S \ {m})

\* Lines 237-239: the entries of one date, in the order of the argument
\* (the later sort by date is stable and all dates of a bucket are equal).
Bucket(es, d) == SelectSeq([i \in 1..Len(es) |-> i], LAMBDA i : es[i] = d)

\* Lines 241-256: today first, then the dates present from the most recent
\* on; the first max(1, loop_max_days) of them are selected.
SelectedDates(es, t, lim) ==
  LET ordered == <<t>> \o SortedDesc({es[i] : i \in 1..Len(es)} \ {t})
      limit == Max(1, lim)
  IN  SubSeq(ordered, 1, Min(limit, Len(ordered)))

\* Lines 258-270: one group per selected date.
GroupByDayOf(es, t, lim) ==
  LET selected == SelectedDates(es, t, lim)
  IN  [k \in 1..Len(selected) |->
         [label |-> selected[k], start |-> selected[k], end |-> selected[k],
          items |-> Bucket(es, selected[k])]]

GroupByDay ==
  /\ groups = <<>>
  /\ groups' = GroupByDayOf(entries, today, maxDays)
  /\ UNCHANGED <<ledgerVars, threadVars, cfgVars, loopVars, outVars, histVars, streamVars,
                 entryVars, valVars, reqVars, clock, lastAnimTs, animPuts, sinkFails, auxVars, tcRows,
                 tcLast, entries, today, maxDays>>

InitLoop ==
  /\ ThreadsIdle
  /\ limits = [a \in Agents |-> None]
  /\ counts = ZeroCounts
  /\ OrchIdle
  /\ ValidatorIdle
  /\ RequestsIdle
  /\ AnimIdle
  /\ TicketsIdle
  /\ AuxIdle
  /\ sinkFails = FALSE
  /\ entries \in UNION {[1..n -> Days] : n \in 0..MaxEntries}
  /\ today \in Days
  /\ maxDays \in 1..MaxLoopDays
  /\ groups = <<>>

NextLoop ==
  \/ GroupByDay

SpecLoop == InitLoop /\ [][NextLoop]_vars

(***************************************************************************)
(* One SQL candidate from the LLM reply to the data engine.                *)
(***************************************************************************)
SelOne == <<"select", " ", "1">>
SelPrefixed == <<"select", " ", "*", " ", "from", " ", "files", ".", "t">>
SelPrefixedUpper == <<"SELECT", " ", "*", " ", "FROM", " ", "Files", ".", "t">>
SelBare == <<"select", " ", "*", " ", "from", " ", "t">>
SelOtherTable == <<"select", " ", "*", " ", "from", " ", "files", ".", "b">>
SelJoinBare == SelPrefixed \o <<" ", "join", " ", "u">>
SelCte == <<"with", " ", "c", " ", "as", " ", "(">> \o SelPrefixed \o <<")", " ", "select", " ", "*", " ", "from", " ", "c">>
DropTable == <<"DROP", " ", "table", " ", "files", ".", "t">>
DeleteFrom == <<"delete", " ", "from", " ", "files", ".", "t">>
FirstStatements == {SelOne, SelPrefixed, SelOtherTable, SelPrefixedUpper, SelBare, SelJoinBare, SelCte, DropTable, <<"bonjour">>}
NextStatements == {SelOne, SelBare, DropTable, DeleteFrom}
Separators == {<<";">>, <<";", " ">>, <<";", "\n">>}
Candidates ==
  FirstStatements
    \cup {a \o sep \o b : a \in FirstStatements, sep \in Separators, b \in NextStatements}
    \cup {a \o <<";">> : a \in FirstStatements}
    \cup {<<Fence, "sql", "\n">> \o a \o <<"\n", Fence>> : a \in FirstStatements}
ValidatingMethods == {"generate", "explore", "generate_with_evidence"}

\* generate (lines 389-396), explore (lines 590-598), generate_with_evidence
\* (lines 673-680): the candidate is returned when the checks pass, else
\* RuntimeError is raised.
AgentValidates ==
  /\ vpc = "llm"
  /\ \E m \in ValidatingMethods :
       /\ vagent' = m
       /\ IF ValidatorAccepts(llmText)
            THEN vpc' = "returned" /\ generated' = ExtractSql(llmText)
            ELSE vpc' = "raised" /\ generated' = generated
  /\ UNCHANGED <<ledgerVars, threadVars, cfgVars, loopVars, outVars, histVars, streamVars, entryVars,
                 llmText, executed, reqVars, extVars>>

\* ChatService.completion, lines 460 and 527: client.sql on the SQL the
\* method returned.
EngineExecutes ==
  /\ vpc = "returned"
  /\ vpc' = "executed"
  /\ executed' = DataEngineRuns(generated)
  /\ UNCHANGED <<ledgerVars, threadVars, cfgVars, loopVars, outVars, histVars, streamVars, entryVars,
                 llmText, vagent, generated, reqVars, extVars>>

\* The request's access settings: every table or only table a allowed,
\* nothing or table b excluded (chat_service.py, lines 288-298).
ValidatorAllowed == {AllTables, {"a"}}
ValidatorExclude == {{}, {" b "}}

InitValidator ==
  /\ ThreadsIdle
  /\ limits = [a \in Agents |-> None]
  /\ counts = ZeroCounts
  /\ \E allowed_tables \in ValidatorAllowed, exclude_tables \in ValidatorExclude :
       OrchIdleFor(allowed_tables, exclude_tables)
  /\ llmText \in Candidates
  /\ vagent = "none"
  /\ vpc = "llm"
  /\ generated = <<>>
  /\ executed = <<>>
  /\ RequestsIdle
  /\ ExtIdle
  /\ sinkFails = FALSE

NextValidator ==
  \/ AgentValidates
  \/ EngineExecutes

SpecValidator == InitValidator /\ [][NextValidator]_vars

(***************************************************************************)
(* NL2SQLService.explore on the reply of the LLM: nl2sql_service.py,       *)
(* lines 574-603.  A query of the reply has a purpose (empty or not) and   *)
(* an SQL text.                                                            *)
(***************************************************************************)
MaxQueries == 4
ExploreSqls == {SelPrefixed, SelBare, DropTable, <<>>}
ExploreQueries == [purpose : BOOLEAN, sql : ExploreSqls]
ExploreReplies ==
  [json : {"invalid"}, queries : {<<>>}]
    \cup [json : {"object"}, queries : UNION {[1..n -> ExploreQueries] : n \in 0..MaxQueries}]

\* Lines 589-592: `if not purpose or not sql: continue`.
Skipped(query) == ~query.purpose \/ ExtractSql(query.sql) = <<>>

\* Lines 594-596: _is_select_only and _ensure_required_prefix raise.
Rejected(query) ==
  LET sql == ExtractSql(query.sql)
  IN  ~Skipped(query) /\ ~(IsSelectOnly(sql) /\ EnsureRequiredPrefix(sql))

\* Lines 581-602: the loop over queries[:max_steps] ends at the first
\* query one of the checks rejects; else the queries not skipped are
\* returned in order, and an empty list raises.
ExploreResult(reply, max_steps) ==
  LET head == SubSeq(reply.queries, 1, Min(max_steps, Len(reply.queries)))
      kept == SelectSeq(head, LAMBDA query : ~Skipped(query))
      out == [i \in 1..Len(kept) |-> ExtractSql(kept[i].sql)]
  IN  IF reply.json = "invalid" \/ reply.queries = <<>>
        THEN [status |-> "raised", out |-> <<>>]
      ELSE IF \E i \in 1..Len(head) : Rejected(head[i])
        THEN [status |-> "raised", out |-> <<>>]
      ELSE IF out = <<>>
        THEN [status |-> "raised", out |-> <<>>]
      ELSE [status |-> "returned", out |-> out]

Explore ==
  /\ exploreOut = Pending
  /\ exploreOut' = ExploreResult(exploreReply, NL2SQL_EXPLORE_MAX_STEPS)
  /\ UNCHANGED <<ledgerVars, threadVars, cfgVars, loopVars, outVars, histVars, streamVars,
                 entryVars, valVars, reqVars, clock, lastAnimTs, animPuts, sinkFails, tcRows,
                 tcLast, entries, today, maxDays, groups, exploreReply, baseSql, evidenceOut, lockVars>>

InitExplore ==
  /\ ThreadsIdle
  /\ limits = [a \in Agents |-> None]
  /\ counts = ZeroCounts
  /\ OrchIdle
  /\ ValidatorIdle
  /\ RequestsIdle
  /\ AnimIdle
  /\ TicketsIdle
  /\ LoopIdle
  /\ sinkFails = FALSE
  /\ EvidenceIdle
  /\ LockIdle
  /\ exploreReply \in ExploreReplies
  /\ exploreOut = Pending

NextExplore ==
  \/ Explore

SpecExplore == InitExplore /\ [][NextExplore]_vars

(***************************************************************************)
(* Evidence derivation: services/chat_service.py, _derive_evidence_sql     *)
(* (lines 746-811) and _emit_evidence (lines 813-868).  A base statement   *)
(* is given by its parts, which is what sqlglot.parse_one makes of it; its *)
(* text is the rendering of the parts.  None is the empty text.            *)
(***************************************************************************)
SelectLists == {<<"*">>, <<"a">>, <<"count", "(", "*", ")">>, <<"1">>}
SecondSelects == {<<"select", " ", "*", " ", "from", " ", "files", ".", "u">>,
                  <<"select", " ", "a", " ", "from", " ", "files", ".", "u">>}
SetOperations == {"union", "intersect", "except"}
Tails == {<<>>, <<" ", "limit", " ", "5">>, <<" ", "order", " ", "by", " ", "a">>}
BaseStatements ==
  {st \in [list : SelectLists, from : BOOLEAN, where : BOOLEAN,
           setop : SetOperations \cup {"none"}, second : SecondSelects \cup {<<>>}, tail : Tails] :
     /\ (st.where => st.from)
     /\ (st.list = <<"*">> => st.from)
     /\ (st.setop = "none" <=> st.second = <<>>)}

FromClause(st) == IF st.from THEN <<" ", "from", " ", "files", ".", "t">> ELSE <<>>
WhereClause(st) == IF st.where THEN <<" ", "where", " ", "x", " ", "=", " ", "1">> ELSE <<>>

\* The text of the statement.
Render(st) ==
  <<"select", " ">> \o st.list \o FromClause(st) \o WhereClause(st)
    \o (IF st.setop = "none" THEN <<>> ELSE <<" ", st.setop, " ">> \o st.second)
    \o st.tail

\* settings.evidence_limit_default, as the lexeme of the rendered number.
EvidenceLimit == <<"100">>

\* re.search(r"\bselect\s+\*", s, re.I)
HasSelectStar(text) ==
  \E i \in 1..(Len(text) - 2) :
    casefold(text[i]) = "select" /\ IsSpace(text[i + 1]) /\ text[i + 2] = "*"

\* re.search(r"\blimit\b", s, re.I)
HasLimitWord(text) == \E i \in 1..Len(text) : casefold(text[i]) = "limit"

\* _derive_evidence_sql, lines 764-811: a text holding `select *` comes
\* back as it is, with a LIMIT appended if it has none (lines 770-772),
\* before the statement is parsed; then a set operation gives None (lines
\* 787-788), a SELECT without FROM gives None (lines 795-799), and another
\* SELECT gives SELECT * with its FROM and WHERE and a LIMIT.
DeriveEvidenceSql(st) ==
  LET text == Strip(Render(st))
  IN  IF HasSelectStar(text)
        THEN IF HasLimitWord(text) THEN text ELSE text \o <<" ", "LIMIT", " ">> \o EvidenceLimit
      ELSE IF st.setop # "none" THEN <<>>
      ELSE IF ~st.from THEN <<>>
      ELSE <<"SELECT", " ", "*">> \o FromClause(st) \o WhereClause(st)
             \o <<" ", "LIMIT", " ">> \o EvidenceLimit

\* _emit_evidence, lines 835-843: `if derived:` the derived statement is
\* sent to client.sql.
EmitEvidence ==
  /\ evidenceOut = NoEvidence
  /\ LET derived == DeriveEvidenceSql(baseSql)
     IN  evidenceOut' = [status |-> "done", derived |-> derived,
                         executed |-> IF derived # <<>> THEN DataEngineRuns(derived) ELSE <<>>]
  /\ UNCHANGED <<ledgerVars, threadVars, cfgVars, loopVars, outVars, histVars, streamVars,
                 entryVars, valVars, reqVars, clock, lastAnimTs, animPuts, sinkFails, tcRows,
                 tcLast, entries, today, maxDays, groups, exploreReply, exploreOut, baseSql, lockVars>>

InitEvidence ==
  /\ ThreadsIdle
  /\ limits = [a \in Agents |-> None]
  /\ counts = ZeroCounts
  /\ OrchIdle
  /\ ValidatorIdle
  /\ RequestsIdle
  /\ AnimIdle
  /\ TicketsIdle
  /\ LoopIdle
  /\ ExploreIdle
  /\ LockIdle
  /\ sinkFails = FALSE
  /\ baseSql \in BaseStatements
  /\ evidenceOut = NoEvidence

NextEvidence ==
  \/ EmitEvidence

SpecEvidence == InitEvidence /\ [][NextEvidence]_vars

(***************************************************************************)
(* chat_stream, ticket mode: api/routes/v1/chat.py, lines 44-53 and        *)
(* 452-508.  chat_stream is a plain `def` endpoint, so each request runs   *)
(* on a thread of the server's pool; the requests below are of one         *)
(* conversation.                                                           *)
(***************************************************************************)
LockUnchanged ==
  UNCHANGED <<ledgerVars, threadVars, cfgVars, loopVars, outVars, histVars, streamVars,
              entryVars, valVars, reqVars, clock, lastAnimTs, animPuts, sinkFails, tcRows,
              tcLast, entries, today, maxDays, groups, exploreReply, exploreOut, baseSql,
              evidenceOut>>

\* Line 49: `lock = _ticket_context_cache_locks.get(key)`; line 50:
\* `if lock is None:`.
LockGet(rq) ==
  /\ lpc[rq] = "get"
  /\ tlock' = [tlock EXCEPT ![rq] = ticketContextCacheLocks[lkey[rq]]]
  /\ lpc' = [lpc EXCEPT ![rq] = IF ticketContextCacheLocks[lkey[rq]] = NoObject THEN "new" ELSE "acquire"]
  /\ UNCHANGED <<ticketContextCacheLocks, locksMade, lockOwner, lkey, ticketCache>>
  /\ LockUnchanged

\* Line 51: `lock = threading.Lock()`.
LockNew(rq) ==
  /\ lpc[rq] = "new"
  /\ locksMade' = locksMade + 1
  /\ tlock' = [tlock EXCEPT ![rq] = locksMade + 1]
  /\ lpc' = [lpc EXCEPT ![rq] = "store"]
  /\ UNCHANGED <<ticketContextCacheLocks, lockOwner, lkey, ticketCache>>
  /\ LockUnchanged

\* Line 52: `_ticket_context_cache_locks[key] = lock`; line 53: return.
LockStore(rq) ==
  /\ lpc[rq] = "store"
  /\ ticketContextCacheLocks' = [ticketContextCacheLocks EXCEPT ![lkey[rq]] = tlock[rq]]
  /\ lpc' = [lpc EXCEPT ![rq] = "acquire"]
  /\ UNCHANGED <<locksMade, lockOwner, lkey, tlock, ticketCache>>
  /\ LockUnchanged

\* Line 464: `with lock:` waits until the lock is free and takes it.
LockAcquire(rq) ==
  /\ lpc[rq] = "acquire"
  /\ lockOwner[tlock[rq]] = NoRequest
  /\ lockOwner' = [lockOwner EXCEPT ![tlock[rq]] = rq]
  /\ lpc' = [lpc EXCEPT ![rq] = "read"]
  /\ UNCHANGED <<ticketContextCacheLocks, locksMade, lkey, tlock, ticketCache>>
  /\ LockUnchanged

\* Lines 465-476: the cache row of the conversation is read; it is a hit
\* when its key is the expected one.
CacheRead(rq) ==
  /\ lpc[rq] = "read"
  /\ lpc' = [lpc EXCEPT ![rq] = IF ticketCache = lkey[rq] THEN "release" ELSE "build"]
  /\ UNCHANGED <<ticketContextCacheLocks, locksMade, lockOwner, lkey, tlock, ticketCache>>
  /\ LockUnchanged

\* Lines 478-487: ticket_service.build_context returns the context, or
\* raises and the `with` block is left.
BuildContext(rq) ==
  /\ lpc[rq] = "build"
  /\ \E ok \in BOOLEAN :
       IF ok
         THEN /\ lpc' = [lpc EXCEPT ![rq] = "set"]
              /\ lockOwner' = lockOwner
         ELSE /\ lpc' = [lpc EXCEPT ![rq] = "failed"]
              /\ lockOwner' = [lockOwner EXCEPT ![tlock[rq]] = NoRequest]
  /\ UNCHANGED <<ticketContextCacheLocks, locksMade, lkey, tlock, ticketCache>>
  /\ LockUnchanged

\* Lines 493-507: repo.set_ticket_context_cache in a transaction; an
\* SQLAlchemyError is logged and the row stays as it was.
SetCache(rq) ==
  /\ lpc[rq] = "set"
  /\ \E ok \in BOOLEAN : ticketCache' = IF ok THEN lkey[rq] ELSE ticketCache
  /\ lpc' = [lpc EXCEPT ![rq] = "release"]
  /\ UNCHANGED <<ticketContextCacheLocks, locksMade, lockOwner, lkey, tlock>>
  /\ LockUnchanged

\* The end of the `with lock:` block.
LockRelease(rq) ==
  /\ lpc[rq] = "release"
  /\ lockOwner' = [lockOwner EXCEPT ![tlock[rq]] = NoRequest]
  /\ lpc' = [lpc EXCEPT ![rq] = "done"]
  /\ UNCHANGED <<ticketContextCacheLocks, locksMade, lkey, tlock, ticketCache>>
  /\ LockUnchanged

\* The process has just started (no lock in the dictionary); the cache row
\* of the conversation, kept in the database, may be there already.
InitTicketLock ==
  /\ ThreadsIdle
  /\ limits = [a \in Agents |-> None]
  /\ counts = ZeroCounts
  /\ OrchIdle
  /\ ValidatorIdle
  /\ RequestsIdle
  /\ AnimIdle
  /\ TicketsIdle
  /\ LoopIdle
  /\ ExploreIdle
  /\ EvidenceIdle
  /\ sinkFails = FALSE
  /\ ticketContextCacheLocks = [k \in TicketKeys |-> NoObject]
  /\ locksMade = 0
  /\ lockOwner = [o \in LockObjects |-> NoRequest]
  /\ lkey \in [Requests -> TicketKeys]
  /\ lpc = [rq \in Requests |-> "get"]
  /\ tlock = [rq \in Requests |-> NoObject]
  /\ ticketCache \in {NoKey} \cup TicketKeys

NextTicketLock ==
  \/ \E rq \in Requests : LockGet(rq)
  \/ \E rq \in Requests : LockNew(rq)
  \/ \E rq \in Requests : LockStore(rq)
  \/ \E rq \in Requests : LockAcquire(rq)
  \/ \E rq \in Requests : CacheRead(rq)
  \/ \E rq \in Requests : BuildContext(rq)
  \/ \E rq \in Requests : SetCache(rq)
  \/ \E rq \in Requests : LockRelease(rq)

SpecTicketLock == InitTicketLock /\ [][NextTicketLock]_vars

(***************************************************************************)
(* Requests and their contexts: core/agent_limits.py, lines 18-70.  Each   *)
(* request is handled in a context of its own, in which _limits_var and    *)
(* _counts_var are unset until reset_from_settings binds them.             *)
(***************************************************************************)
\* `_counts_var.set({})`: the dict bound is a new object.
NewCountsObjectShared(next) == 1
NewCountsObject(next) == next

\* The context of the request as the ledger operators see it.
RequestCtx(rq) == IF ctxCounts[rq] = NoObject THEN "empty" ELSE "request"
RequestCounts(rq) == IF ctxCounts[rq] = NoObject THEN ZeroCounts ELSE heap[ctxCounts[rq]]

\* reset_from_settings() at the start of chat_completion / chat_stream.
ResetFromSettings(rq) ==
  /\ rqPc[rq] = "new"
  /\ nextObj <= MaxObjects
  /\ LET o == NewCountsObject(nextObj)
     IN  /\ heap' = [heap EXCEPT ![o] = ZeroCounts]
         /\ ctxCounts' = [ctxCounts EXCEPT ![rq] = o]
  /\ nextObj' = nextObj + 1
  /\ rqPc' = [rqPc EXCEPT ![rq] = "reset"]
  /\ UNCHANGED <<rqMade, rqOwn>>
  /\ UNCHANGED <<ledgerVars, threadVars, cfgVars, loopVars, outVars, histVars, streamVars, entryVars, valVars, extVars>>

\* check_and_increment(a) while handling the request: counts[agent] is
\* updated in place in the dict of the request's context.
RequestCall(rq, a) ==
  /\ rqPc[rq] \in {"reset", "running"}
  /\ rqMade[rq] < MaxCalls
  /\ rqMade' = [rqMade EXCEPT ![rq] = @ + 1]
  /\ rqPc' = [rqPc EXCEPT ![rq] = "running"]
  /\ LET cnt == RequestCounts(rq)
         new == CaiCounts(RequestCtx(rq), limits, cnt, a)
     IN  /\ heap' = [heap EXCEPT ![ctxCounts[rq]] = new]
         /\ rqOwn' = [rqOwn EXCEPT ![rq][a] = IF new = cnt THEN @ ELSE @ + 1]
  /\ UNCHANGED <<nextObj, ctxCounts>>
  /\ UNCHANGED <<ledgerVars, threadVars, cfgVars, loopVars, outVars, histVars, streamVars, entryVars, valVars, extVars>>

\* The request ends and its context is dropped; the next request handled
\* in this place starts from a context with nothing bound.
RequestEnd(rq) ==
  /\ rqPc[rq] \in {"reset", "running"}
  /\ rqPc' = [rqPc EXCEPT ![rq] = "new"]
  /\ ctxCounts' = [ctxCounts EXCEPT ![rq] = NoObject]
  /\ rqMade' = [rqMade EXCEPT ![rq] = 0]
  /\ rqOwn' = [rqOwn EXCEPT ![rq] = ZeroCounts]
  /\ UNCHANGED <<heap, nextObj>>
  /\ UNCHANGED <<ledgerVars, threadVars, cfgVars, loopVars, outVars, histVars, streamVars, entryVars, valVars, extVars>>

InitRequests ==
  /\ ThreadsIdle
  /\ limits \in [Agents -> CapValues]
  /\ \A a \in Agents \ LedgerAgents : limits[a] = None
  /\ counts = ZeroCounts
  /\ OrchIdle
  /\ ValidatorIdle
  /\ RequestsIdle
  /\ ExtIdle
  /\ sinkFails = FALSE

NextRequests ==
  \/ \E rq \in Requests : ResetFromSettings(rq)
  \/ \E rq \in Requests, a \in LedgerAgents : RequestCall(rq, a)
  \/ \E rq \in Requests : RequestEnd(rq)

SpecRequests == InitRequests /\ [][NextRequests]_vars

(***************************************************************************)
(* Properties                                                              *)
(***************************************************************************)
Terminal == pc \in {"returned", "raised"}
AllThreadsDone == \A t \in Threads : tpc[t] = "idle" /\ made[t] = quota[t]
Sequential == Cardinality({t \in Threads : quota[t] > 0}) <= 1

\* C1 (SpecLedger): when one thread makes its calls to check_and_increment
\* one after the other for an agent with cap C, after N calls exactly
\* min(N, C) have succeeded, the others have raised AgentBudgetExceeded and
\* the stored counter is min(N, C); a call that raises leaves the counter
\* map as it was (not charged, not clamped).
SequentialCountsExact ==
  Sequential =>
    \A a \in LedgerAgents :
      limits[a] # None =>
        LET n == okCalls[a] + rejCalls[a]
        IN  /\ okCalls[a] = Min(n, limits[a])
            /\ rejCalls[a] = n - Min(n, limits[a])
            /\ get_count(counts, a) = Min(n, limits[a])
BudgetMonotonicity ==
  /\ []SequentialCountsExact
  /\ [][(rejCalls' # rejCalls) => (counts' = counts)]_vars
BudgetMonotonicityWitness ==
  /\ Sequential
  /\ \E a \in LedgerAgents :
       limits[a] = 1 /\ okCalls[a] = 1 /\ rejCalls[a] >= 1 /\ counts[a] = 1

\* C2 (SpecLedger): with several threads calling check_and_increment for
\* the same capped agent, in every interleaving the stored counter never
\* exceeds the cap, and once all calls have finished the counter equals
\* min(total attempts, cap) and equals the number of calls that succeeded.
ConcurrentLedgerExact ==
  \A a \in LedgerAgents :
    limits[a] # None =>
      /\ counts[a] <= limits[a]
      /\ AllThreadsDone =>
           /\ counts[a] = Min(okCalls[a] + rejCalls[a], limits[a])
           /\ okCalls[a] = counts[a]
ConcurrentLedgerWitness ==
  /\ AllThreadsDone
  /\ \A t \in Threads : quota[t] > 0
  /\ \E a \in LedgerAgents :
       /\ limits[a] = 2
       /\ okCalls[a] = 2
       /\ counts[a] = 2
       /\ rejCalls[a] >= 1

\* C3 (SpecStream): in the streaming endpoint the caps installed by
\* reset_from_settings on the request thread are the ones enforced and
\* charged for the agent calls made by the worker thread: a capped agent is
\* called at most cap times and every call is charged to the shared counter.
WorkerChargesRequestLedger ==
  mode = "stream" =>
    \A a \in Agents :
      limits[a] # None => (calls[a] <= limits[a] /\ counts[a] = calls[a])

\* C4 (SpecStream): the consumer loop of the streaming generator never
\* waits forever on the event queue: it is never blocked on an empty queue
\* when the worker thread has ended without putting the final marker.
StreamNeverHangs ==
  ~(cpc = "consume" /\ q = <<>> /\ wst = "died")

\* C5 (Spec): when a check_and_increment made by an agent call inside
\* completion raises AgentBudgetExceeded, completion ends with that
\* exception and without a reply, and chat_completion answers 429.
BudgetExceededPropagates ==
  raisedBy # "none" =>
    /\ pc = "raised"
    /\ exc = "AgentBudgetExceeded"
    /\ resp = NoResp
    /\ http \in {0, 429}
BudgetExceededWitness ==
  /\ raisedBy = "retrieval"
  /\ exc = "AgentBudgetExceeded"
  /\ http = 429

\* C6 (Spec): rounds is min(remaining(explorer), remaining(analyst)) when
\* both are capped, 1 when neither is, the remaining count of the capped
\* one otherwise, with remaining(a) = max(0, cap(a) - count(a)) taken when
\* the run starts; explorer cap 2, analyst cap 5, no usage gives 2.
ClaimRemaining(a) == Max(0, limits[a] - countsAtStart[a])
RoundsFromBudgets ==
  /\ DeriveRounds(Remaining("request", [a \in Agents |-> IF a = "explorateur" THEN 2 ELSE 5], ZeroCounts, "explorateur"),
                  Remaining("request", [a \in Agents |-> IF a = "explorateur" THEN 2 ELSE 5], ZeroCounts, "analyste")) = 2
  /\ pc \notin {"idle", "start"} =>
       LET capE == limits["explorateur"]
           capA == limits["analyste"]
       IN  /\ (capE # None /\ capA # None) =>
                rounds = Min(ClaimRemaining("explorateur"), ClaimRemaining("analyste"))
           /\ (capE = None /\ capA = None) => rounds = 1
           /\ (capE # None /\ capA = None) => rounds = ClaimRemaining("explorateur")
           /\ (capE = None /\ capA # None) => rounds = ClaimRemaining("analyste")
RoundsFromBudgetsWitness ==
  /\ pc = "explore"
  /\ limits["explorateur"] = 2
  /\ countsAtStart["explorateur"] = 1
  /\ limits["analyste"] = 2
  /\ countsAtStart["analyste"] = 0
  /\ rounds = 1

\* C7 (Spec): when the derived number of rounds is 0, completion returns
\* the "exploration disabled" reply with rounds_used = 0, raises nothing,
\* makes no agent call, executes no SQL and leaves every counter unchanged.
ZeroRoundsShortCircuit ==
  (pc \notin {"idle", "start"} /\ rounds = 0) =>
    /\ pc = "returned"
    /\ resp.reply = "exploration_disabled"
    /\ resp.rounds_used = 0
    /\ exc = "none"
    /\ raisedBy = "none"
    /\ calls = ZeroCounts
    /\ sqlExec = 0
    /\ roundsStarted = 0
    /\ counts = countsAtStart
    /\ http \in {0, 200}
ZeroRoundsWitness ==
  /\ pc = "returned"
  /\ rounds = 0
  /\ limits["explorateur"] = 0
  /\ http = 200

\* C8 (Spec): if every round that was started ran its final query and each
\* of them returned fewer than min_rows rows, completion has gone through
\* exactly `rounds` rounds and returns the fixed "unsatisfied" reply, which
\* carries no rows.
AllStartedRoundsUnsatisfied ==
  /\ roundsStarted >= 1
  /\ \A i \in 1..roundsStarted :
       finalRows[i] # None /\ finalRows[i] < MinRows(minRowsCfg)
UnsatisfiedAfterAllRounds ==
  (Terminal /\ AllStartedRoundsUnsatisfied) =>
    /\ pc = "returned"
    /\ resp.reply = "unsatisfied"
    /\ resp.provider = "nl2sql-multiagent-empty"
    /\ resp.retrieval_rows = None
    /\ roundsStarted = rounds
    /\ ~writerArgs.called
UnsatisfiedWitness ==
  /\ pc = "returned"
  /\ resp.reply = "unsatisfied"
  /\ rounds = 2
  /\ roundsStarted = 2
  /\ limits["explorateur"] = None

\* C9, as claimed (Spec): once the final query of round r satisfies the
\* threshold, the run ends with the writer called on ev_for_answer and the
\* retrieval rows and with the writer's text as the reply, rounds_used = r.
SatisfiedRoundReturnsWriterText ==
  (Terminal /\ satisfiedAt # 0) =>
    /\ roundsStarted = satisfiedAt
    /\ retrievalRuns = 1
    /\ writerArgs = [evidence |-> Append(evidence, AnswerItem(satisfiedAt)),
                     retrieval |-> retrievalPayload, called |-> TRUE]
    /\ pc = "returned"
    /\ resp.reply = "writer_text"
    /\ resp.rounds_used = satisfiedAt

\* C9, amended (Spec): once the final query of round r satisfies the
\* threshold no further round is started and retrieval runs once; unless
\* the retrieval or the writer budget is exhausted (the exception
\* propagates) the writer is called with the exploration items plus the
\* answer item and with the retrieval rows; the reply is the writer's text
\* (a fixed fallback sentence when the text is blank) with rounds_used = r,
\* or an error reply when the writer call fails.
SatisfiedRoundOutcome ==
  satisfiedAt # 0 =>
    /\ roundsStarted = satisfiedAt
    /\ r = satisfiedAt
    /\ evForAnswer = Append(evidence, AnswerItem(satisfiedAt))
    /\ writerArgs.called =>
         /\ retrievalRuns = 1
         /\ writerArgs.evidence = Append(evidence, AnswerItem(satisfiedAt))
         /\ writerArgs.retrieval = retrievalPayload
    /\ Terminal =>
         /\ retrievalRuns = 1
         /\ IF pc = "raised"
              THEN exc = "AgentBudgetExceeded" /\ raisedBy \in {"retrieval", "redaction"}
              ELSE /\ writerArgs.called
                   /\ resp.reply \in {"writer_text", "writer_fallback", "writer_error"}
                   /\ resp.retrieval_rows = retrievalPayload
                   /\ resp.reply \in {"writer_text", "writer_fallback"} =>
                        resp.rounds_used = satisfiedAt
                   /\ resp.reply = "writer_error" => resp.rounds_used = None
SatisfiedRoundWitness ==
  /\ pc = "returned"
  /\ satisfiedAt = 2
  /\ resp.reply = "writer_text"
  /\ resp.rounds_used = 2
  /\ Len(writerArgs.evidence) >= 3

\* Rounds whose final query has run, and the probes recorded in round i.
RoundsCompleted == Cardinality({i \in DOMAIN finalRows : finalRows[i] # None})
ProbesIn(i) == Cardinality({j \in 1..Len(evidence) : evidence[j].round = i})
BetweenRounds == RoundsCompleted = roundsStarted /\ pc # "final"

\* C10, as claimed (Spec): after R rounds with K probes each the evidence
\* list holds R*K + R items.
EvidenceCountsFinalQueries ==
  \A R \in 1..(MaxCap + 1), K \in 1..NL2SQL_EXPLORE_MAX_STEPS :
    (BetweenRounds /\ RoundsCompleted = R /\ \A i \in 1..R : ProbesIn(i) = K)
      => Len(evidence) = R * K + R

\* C10, amended (Spec): the evidence list holds exactly the executed probes
\* (R*K items after R rounds of K probes each); the final-query item is put
\* only in the copy handed to the writer in the satisfied round, which has
\* one item more; the list only grows by appends and is never reset.
EvidenceHoldsProbes ==
  /\ Len(evidence) = probesDone
  /\ \A j \in 1..Len(evidence) : evidence[j].purpose = "explore"
  /\ \A R \in 1..(MaxCap + 1), K \in 1..NL2SQL_EXPLORE_MAX_STEPS :
       (BetweenRounds /\ RoundsCompleted = R /\ \A i \in 1..R : ProbesIn(i) = K)
         => Len(evidence) = R * K
  /\ satisfiedAt # 0 => Len(evForAnswer) = Len(evidence) + 1
EvidenceAccumulates ==
  /\ []EvidenceHoldsProbes
  /\ [][Len(evidence') >= Len(evidence) /\ SubSeq(evidence', 1, Len(evidence)) = evidence]_vars
EvidenceAccumulatesWitness ==
  /\ BetweenRounds
  /\ RoundsCompleted = 2
  /\ ProbesIn(1) = 2
  /\ ProbesIn(2) = 2
  /\ Len(evidence) = 4

\* C11 (Spec): across the rounds of a run the evidence list only grows by
\* appends: the items present when round r ended are still there in round
\* r+1, unmodified and at the same positions (the list handed to the agents
\* is read and condensed into a new list, never changed); no step removes
\* or rewrites an item.
CarriedForward ==
  /\ Len(carried) <= Len(evidence)
  /\ SubSeq(evidence, 1, Len(carried)) = carried
  /\ (r >= 2 /\ pc \notin {"idle", "start"}) =>
       Len(carried) = Cardinality({j \in 1..Len(evidence) : evidence[j].round < r})
  /\ \A j \in 1..Len(analystPrompt) : analystPrompt[j] = evidence[j]
EvidenceAppendOnly ==
  /\ []CarriedForward
  /\ [][\A j \in 1..Len(evidence) : j <= Len(evidence') /\ evidence'[j] = evidence[j]]_vars
EvidenceAppendOnlyWitness ==
  /\ r = 2
  /\ pc = "final"
  /\ Len(carried) = 3
  /\ Len(evidence) = 6
  /\ Len(analystPrompt) = ANALYST_MAX_ITEMS

\* C12 (SpecChat): when the router decision for the last user message has
\* allow = False, the request ends with the fixed deflection sentence
\* (reply of chat_completion; meta, delta, done of chat_stream) and the SQL
\* pipeline is never entered: completion is not called, no worker is
\* started, no SQL is executed and no agent call is made.
RouterDenyDeflects ==
  (decision # NoDecision /\ ~decision.allow) =>
    /\ ~completionCalled
    /\ sqlExec = 0
    /\ passSql = <<>>
    /\ calls = ZeroCounts
    /\ counts = ZeroCounts
    /\ wst = "notstarted"
    /\ mode = "sync" => (pc = "deflected" /\ resp = DeflectionResp /\ http = 200)
    /\ mode = "stream" => (pc = "idle" /\ cpc = "done" /\ sse = <<"meta", "delta", "done">>)
RouterDenyWitness ==
  /\ mode = "stream"
  /\ routerMode = "rule"
  /\ msg = <<"salut">>
  /\ decision = RouterDecision(FALSE, "none", 90)
  /\ cpc = "done"

\* C13 as stated (SpecChat): under rule-based routing the short greeting
\* 'salut, ça va ?' is classified RouterDecision(allow=False, route='none').
GreetingQuestionBlocked ==
  (routerMode = "rule" /\ msg = SalutCaVa /\ decision # NoDecision) =>
    (~decision.allow /\ decision.route = "none")

\* C13 amended (SpecChat): under rule-based routing 'salut, ça va ?' is
\* allowed with route 'data' (confidence 0.75), because its question mark
\* is an interrogative cue tested before the short-greeting rule; the same
\* greeting without the question mark, 'Salut, ça va', is classified
\* RouterDecision(allow=False, route='none').
GreetingQuestionAllowed ==
  (routerMode = "rule" /\ decision # NoDecision) =>
    /\ msg = SalutCaVa => decision = RouterDecision(TRUE, "data", 75)
    /\ msg = SalutCaVaPlain => (~decision.allow /\ decision.route = "none")
    /\ (TokenCount(msg) <= SHORT_MESSAGE_TOKEN_THRESHOLD /\ SearchWords(msg, RE_GREET)
          /\ \A i \in 1..Len(msg) : msg[i] = "?" \/ casefold(msg[i]) \notin RE_DATA \cup RE_FEEDBACK \cup RE_FOYER \cup RE_QUESTION \cup RE_TIME \cup DigitLexemes)
       => (decision.allow <=> \E i \in 1..Len(msg) : msg[i] = "?")
GreetingQuestionWitness ==
  /\ routerMode = "rule"
  /\ msg = SalutCaVa
  /\ decision = RouterDecision(TRUE, "data", 75)
  /\ mode = "sync"
  /\ pc = "start"

\* C14 (SpecChat): when no table is left after the allow-list and then the
\* exclusion list (allowed {a,b}, excluded {a,b}), completion returns the
\* 'no active tables' reply, raises nothing, calls no agent, executes no
\* SQL and leaves every agent counter where it was.
TablesLeft ==
  {i \in 1..Len(DataTables) :
     /\ allowed = AllTables \/ \E a \in allowed : casefold(a) = casefold(DataTables[i])
     /\ ~\E e \in exclude : casefold(StripName(e)) = casefold(DataTables[i])}
NoTablesBlocks ==
  (completionCalled /\ ~IsSqlCommand(msg) /\ TablesLeft = {}) =>
    /\ resp = NoTablesResp
    /\ exc = "none"
    /\ calls = ZeroCounts
    /\ counts = ZeroCounts
    /\ sqlExec = 0
    /\ roundsStarted = 0
    /\ retrievalRuns = 0
  /\ axesFailed = 0
    /\ pc \notin {"explore", "probe", "axes", "analyst", "final", "retrieval", "writer"}
NoTablesWitness ==
  /\ allowed = {"a", "b"}
  /\ exclude = {"A", " b "}
  /\ completionCalled
  /\ resp = NoTablesResp
  /\ http = 200

\* C15 (SpecChat): the schema handed to the agents holds exactly the tables
\* of the data source that are in the allow-list (no allow-list: all of
\* them) and not in the exclusion list, names compared case-insensitively
\* and exclusion items stripped; an excluded or non-allowed table is never
\* in the schema of a request whose round loop ran.
SchemaIsFiltered ==
  (schema # <<>> \/ calls # ZeroCounts) =>
    /\ {schema[i] : i \in 1..Len(schema)} = {DataTables[i] : i \in TablesLeft}
    /\ \A i, j \in 1..Len(schema) : schema[i] = schema[j] => i = j
SchemaIsFilteredWitness ==
  /\ allowed = {"a", "c"}
  /\ exclude = {" b ", " "}
  /\ schema = <<"A">>
  /\ calls["explorateur"] >= 1

\* C16 as stated (SpecChat): a last user message starting with '/sql '
\* (case-insensitive) always bypasses routing and the multi-agent loop: no
\* router decision is computed, no agent is called, no agent counter
\* changes, and completion, once called, runs only the passthrough.
SqlPrefixAlwaysBypasses ==
  StartsWith(Casefold(msg), SqlPrefix) =>
    /\ decision = NoDecision
    /\ routerCount = 0
    /\ calls = ZeroCounts
    /\ counts = ZeroCounts
    /\ roundsStarted = 0
    /\ completionCalled => (rounds = 0 /\ schema = <<>> /\ resp # NoTablesResp)

\* C17 as stated (SpecChat): the SQL given after '/sql ' is handed to the
\* data engine only after passing the validator; passthrough SQL that the
\* validator rejects is never executed.
PassthroughValidated ==
  (passSql # <<>> /\ sqlExec >= 1) => ValidatorAccepts(passSql)

\* C18 as stated (SpecValidator): a candidate holding one of INSERT, UPDATE,
\* DELETE, DROP, ALTER, CREATE as a token, or a second statement after a
\* ';', or a FROM/JOIN table that is not a CTE name and lacks the required
\* prefix, fails validation: it is never returned by an agent method nor
\* executed.
HasForbiddenToken(sql) ==
  \E i \in 1..Len(sql) : casefold(sql[i]) \in {"insert", "update", "delete", "drop", "alter", "create"}
HasSecondStatement(sql) ==
  \E i \in 1..Len(sql) : sql[i] = ";" /\ \E j \in (i + 1)..Len(sql) : ~IsSpace(sql[j]) /\ sql[j] # ";"
HasUnprefixedTable(sql) ==
  \E t \in TableRefs(sql) : casefold(t.tbl) \notin CollectCteNames(sql) /\ casefold(t.db) # RequiredPrefix
ValidatorSound ==
  \A sql \in {generated, executed} :
    ~HasForbiddenToken(sql) /\ ~HasSecondStatement(sql) /\ ~HasUnprefixedTable(sql)

\* C19 (SpecRequests): right after reset_from_settings every counter of the
\* request reads 0, whatever earlier requests counted, and at any time the
\* counters a request reads are exactly the increments made while handling
\* that request: no increment of another request is visible in them.
RequestScoped ==
  \A rq \in Requests :
    /\ rqPc[rq] = "reset" => \A a \in Agents : get_count(RequestCounts(rq), a) = 0
    /\ rqPc[rq] \in {"reset", "running"} =>
         /\ ctxCounts[rq] # NoObject
         /\ \A a \in Agents : get_count(RequestCounts(rq), a) = rqOwn[rq][a]
         /\ \A other \in Requests \ {rq} : ctxCounts[other] # ctxCounts[rq]
RequestScopedWitness ==
  /\ rqPc[1] = "reset"
  /\ rqPc[2] = "running"
  /\ rqOwn[2]["explorateur"] = 2
  /\ heap[1]["explorateur"] = 1
  /\ ctxCounts[1] = 3
  /\ ctxCounts[2] = 2

\* C20 (SpecStream): the events completion passes to emit reach the SSE
\* stream in the order of the emit calls, those dropped by the animation
\* mode aside; the '__final__' marker is the last item put on the queue,
\* and once a 'delta' has been sent every emitted event has been re-emitted
\* before it.
SseEvents == SelectSeq(Tail(sse), LAMBDA k : k \notin {"delta", "done"})
QueuedEvents == SelectSeq(q, LAMBDA k : k # "__final__")
StreamOrderKept ==
  /\ sse = <<>> => emitLog = <<>>
  /\ sse # <<>> => SelectSeq(emitLog, Forwarded) = SseEvents \o SelectSeq(QueuedEvents, Forwarded)
  /\ \A i \in 1..Len(q) : q[i] = "__final__" => i = Len(q)
  /\ (\E i \in 1..Len(sse) : sse[i] = "delta") =>
       /\ q = <<>>
       /\ \E i \in 1..Len(sse) :
            /\ sse[i] = "delta"
            /\ SubSeq(sse, 2, i - 1) = SelectSeq(emitLog, Forwarded)
StreamOrderWitness ==
  /\ animMode = "false"
  /\ cpc = "done"
  /\ Len(emitLog) >= 6
  /\ \E i \in 1..Len(emitLog) : emitLog[i] = "sql"
  /\ \E i \in 1..Len(sse) : sse[i] = "rows"
  /\ sse[Len(sse) - 1] = "delta"

\* C26: whatever _retrieve_context meets, the step that runs it either goes
\* on to the writer with no exception and a highlight ("unavailable" with no
\* retrieval row when the search or the synthesis failed), or raises
\* AgentBudgetExceeded of the agent "retrieval", whose budget is exhausted.
RetrievalFailureContained ==
  [][pc = "retrieval" =>
       \/ /\ pc' = "write"
          /\ exc' = "none"
          /\ raisedBy' = raisedBy
          /\ highlight' \in {"summary", "canned", "unavailable"}
          /\ highlight' = "unavailable" => retrievalPayload' = 0
          /\ highlight' = "summary" => calls'["retrieval"] = calls["retrieval"] + 1
       \/ /\ pc' = "raised"
          /\ exc' = "AgentBudgetExceeded"
          /\ raisedBy' = "retrieval"
          /\ CaiRaises(wctx, limits, counts, "retrieval")]_vars

\* The retrieval failed, the writer was called all the same and its text is
\* the reply.
RetrievalFailureWitness ==
  /\ highlight = "unavailable"
  /\ pc = "returned"
  /\ resp.reply = "writer_text"
  /\ writerArgs.called
  /\ writerArgs.retrieval = 0

\* C23: the step that calls the writer either raises AgentBudgetExceeded of
\* the agent "redaction" or returns a reply with no exception; when the
\* writer call failed the reply is the error message and its metadata holds
\* the retrieval rows gathered in the round.
WriterFailureReply ==
  [][pc = "write" =>
       \/ /\ pc' = "raised"
          /\ exc' = "AgentBudgetExceeded"
          /\ raisedBy' = "redaction"
          /\ CaiRaises(wctx, limits, counts, "redaction")
       \/ /\ pc' = "returned"
          /\ exc' = "none"
          /\ resp'.reply \in {"writer_text", "writer_fallback", "writer_error"}
          /\ resp'.reply = "writer_error" =>
               /\ resp'.provider = "nl2sql-multiagent-synth"
               /\ resp'.retrieval_rows = retrievalPayload
               /\ satisfiedAt = r
               /\ writerArgs'.called]_vars

\* The writer failed after a round whose retrieval found a row: the request
\* is answered 200 with the error reply and that row in the metadata.
WriterFailureWitness ==
  /\ resp.reply = "writer_error"
  /\ resp.retrieval_rows = 1
  /\ highlight = "summary"
  /\ http = 200

\* C24: a failed explore or generate_with_evidence call ends completion
\* with an error reply that embeds the LLM diagnostic; nothing is raised,
\* the request is answered 200 and no agent or data-engine call follows.
RoundAbortedReply ==
  /\ [][(pc \in {"explore", "analyst"} /\ pc' = "raised") =>
          (/\ exc' = "AgentBudgetExceeded"
           /\ CaiRaises(wctx, limits, counts, IF pc = "explore" THEN "explorateur" ELSE "analyste"))]_vars
  /\ [](resp.reply \in {"explore_error", "analyst_error"} =>
          /\ pc = "returned"
          /\ exc = "none"
          /\ resp.reply \in LlmDiagReplies
          /\ http \in {0, 200})
  /\ [][resp.reply \in {"explore_error", "analyst_error"} =>
          (/\ calls' = calls
           /\ sqlExec' = sqlExec
           /\ resp' = resp
           /\ http' = 200)]_vars

\* Round 2 was aborted by the analyst after its probes had run, and the
\* request was answered.
RoundAbortedWitness ==
  /\ resp.reply = "analyst_error"
  /\ r = 2
  /\ probesDone >= 2
  /\ http = 200

\* C25: propose_axes is called once per round, after the probes of the
\* round; AgentBudgetExceeded leaves completion, any other failure leaves
\* the round where a success leaves it, at the analyst call.
AxesBestEffort ==
  /\ [][pc = "axes" =>
          IF CaiRaises(wctx, limits, counts, "axes")
            THEN pc' = "raised" /\ exc' = "AgentBudgetExceeded" /\ raisedBy' = "axes"
            ELSE (/\ pc' = "analyst"
                  /\ calls'["axes"] = calls["axes"] + 1
                  /\ UNCHANGED <<exc, resp, evidence, r, plan, step, sqlExec>>)]_vars
  /\ [](pc = "axes" => step = plan + 1 /\ calls["axes"] = r - 1)
  /\ [](pc \in {"analyst", "final", "preview", "retrieval", "write"} => calls["axes"] = r)

\* The axis proposal of round 1 failed, the analyst was called all the same
\* and the round went on to a written reply.
AxesBestEffortWitness ==
  /\ axesFailed = 1
  /\ calls["axes"] = 1
  /\ calls["analyste"] >= 1
  /\ resp.reply = "writer_text"

\* C22: no exception of the event callback leaves completion; with a
\* callback that raises on every call nothing reaches the queue, and each
\* step of the round loop makes the agent and data-engine calls, and moves
\* to the stage, that the same step makes with a working callback.
SinkFailureNonFatal ==
  /\ [](exc # "SinkError")
  /\ [](sinkFails => emitLog = <<>> /\ \A i \in 1..Len(q) : q[i] = "__final__")
  /\ [][(pc = "probe" /\ sqlExec' # sqlExec) =>
          (/\ sqlExec' = sqlExec + 1
           /\ \/ pc' = "raised" /\ exc' = "DataEngineError" /\ probesDone' = probesDone
              \/ pc' \in {"probe", "axes"} /\ probesDone' = probesDone + 1 /\ step' = step + 1)]_vars
  /\ [][(pc \in {"probe", "final"}) => (calls' = calls /\ (pc' # pc => sqlExec' > sqlExec))]_vars
  /\ [][(pc = "final" /\ pc' # pc) =>
          (/\ sqlExec' \in {sqlExec + 1, sqlExec + 2}
           /\ calls' = calls
           /\ \/ pc' = "raised" /\ exc' = "DataEngineError" /\ sqlExec' = sqlExec + 1
              \/ pc' = "preview" /\ Satisfied(finalRows'[r], MinRows(minRowsCfg))
              \/ pc' = "explore" /\ r' = r + 1 /\ ~Satisfied(finalRows'[r], MinRows(minRowsCfg))
              \/ pc' = "returned" /\ resp'.reply = "unsatisfied" /\ r = rounds)]_vars
  /\ [](pc = "returned" /\ resp.reply = "writer_text" =>
          /\ calls["explorateur"] = r
          /\ calls["axes"] = r
          /\ calls["analyste"] \in {r, r + 1}
          /\ calls["redaction"] = 1
          /\ probesDone >= r
          /\ sqlExec >= probesDone + r)

\* The callback raised on every call, the derived evidence query was run
\* all the same, the writer's text is the reply and the stream ended with
\* done, having forwarded no event of completion.
SinkFailureWitness ==
  /\ sinkFails
  /\ resp.reply = "writer_text"
  /\ r = 1
  /\ sqlExec = probesDone + 2
  /\ cpc = "done"
  /\ sse = <<"meta", "delta", "done">>

\* The kinds of the events handed to repo.add_event, in order.
AddEventKinds ==
  LET w == SelectSeq(dbLog, LAMBDA op : op.op = "add_event")
  IN  [i \in 1..Len(w) |-> w[i].kind]

\* C21: every session or repository operation of a streaming request is
\* made by the consumer (request) thread, never by the worker or an
\* animator thread, and an event is handed to repo.add_event only once the
\* consumer has dequeued it: the persisted events, followed by the
\* persistable events still on the queue, are the persistable events emitted.
PersistenceOnConsumerThread ==
  /\ \A i \in 1..Len(dbLog) : dbLog[i].thread = "consumer"
  /\ AddEventKinds \o SelectSeq(q, Persisted) = SelectSeq(emitLog, Persisted)

\* The worker emitted evidence events and animator threads put narration on
\* the queue; the consumer persisted the evidence rows and the assistant
\* message, and the stream is done.
PersistenceWitness ==
  /\ cpc = "done"
  /\ animPuts # <<>>
  /\ \E i \in 1..Len(anims) : anims[i].pc = "done"
  /\ \E i \in 1..Len(dbLog) : dbLog[i] = DbOp("consumer", "add_event", "rows:evidence")
  /\ dbLog[Len(dbLog)] = DbOp("consumer", "append_message", "assistant")
  /\ Len(dbLog) >= 4

\* C30: any two 'anim' events put on the queue of one request are at least
\* anim_min_interval apart.
AnimRateLimited ==
  \A i, j \in 1..Len(animPuts) :
    i < j => animPuts[j] - animPuts[i] >= AnimMinInterval

\* lower() on the table names of the model.
Lower(name) == IF name = "TICKETS_A" THEN "tickets_a" ELSE name

\* The positions of the rows of a table, names compared case-insensitively.
RowsOf(rows, name) == {i \in 1..Len(rows) : Lower(rows[i].table_name) = Lower(name)}

\* C27: the ticket context configuration is kept per table: save_config
\* for a table without a row adds a row and leaves the other rows as they
\* were, save_config for a table with a row updates that row (same id), and
\* get_config_by_table returns the row of the table, the name compared
\* case-insensitively.
TicketConfigPerTable ==
  /\ tcLast.op = "save_config" =>
       LET before == tcLast.before
           own == RowsOf(before, tcLast.table_name)
       IN  IF own = {}
             THEN /\ Len(tcRows) = Len(before) + 1
                  /\ SubSeq(tcRows, 1, Len(before)) = before
                  /\ tcRows[Len(tcRows)].id = tcLast.result
                  /\ tcRows[Len(tcRows)].table_name = tcLast.table_name
                  /\ tcRows[Len(tcRows)].text_column = tcLast.text_column
             ELSE /\ Len(tcRows) = Len(before)
                  /\ \A i \in 1..Len(before) :
                       IF i \in own
                         THEN /\ tcRows[i].id = before[i].id
                              /\ tcRows[i].id = tcLast.result
                              /\ tcRows[i].text_column = tcLast.text_column
                         ELSE tcRows[i] = before[i]
  /\ tcLast.op = "get_config_by_table" =>
       /\ tcLast.raised = ""
       /\ \/ RowsOf(tcRows, tcLast.table_name) = {} /\ tcLast.result = None
          \/ \E i \in RowsOf(tcRows, tcLast.table_name) : tcLast.result = tcRows[i].id

\* C28: with loop_max_days = 1 and entries none of which is dated today,
\* _group_by_day returns one group, of the most recent date present in the
\* entries, whose items are not empty and all of that date.
GroupByDayLatestDate ==
  (/\ groups # <<>>
   /\ maxDays = 1
   /\ entries # <<>>
   /\ \A i \in 1..Len(entries) : entries[i] # today) =>
    /\ Len(groups) = 1
    /\ \A i \in 1..Len(entries) : entries[i] <= groups[1].start
    /\ groups[1].start = groups[1].end
    /\ groups[1].items # <<>>
    /\ \A k \in 1..Len(groups[1].items) : entries[groups[1].items[k]] = groups[1].start

\* The events of the stream so far open with meta (or are the one error
\* event of a request refused before meta), and done and error are
\* terminal: nothing follows either.
StreamWellFormed ==
  /\ sse # <<>> => sse[1] \in {"meta", "error"}
  /\ \A i \in 1..Len(sse) : sse[i] \in {"done", "error"} => i = Len(sse)

\* C29: every stream has the shape meta, delta*, done, or error on
\* failure: the events open with meta, done and error are terminal, and a
\* request whose completion failed, once the generator can emit nothing
\* more, has ended its stream with an error event.
StreamShape ==
  /\ StreamWellFormed
  /\ (cpc = "consume" /\ q = <<>> /\ wst = "died") => (sse # <<>> /\ sse[Len(sse)] = "error")

\* The events of a sequence that no animator thread put.
NonAnim(events) == SelectSeq(events, LAMBDA k : k # "anim")

\* C31: the animator never blocks or fails the main flow.  emit returns
\* with the animator threads it started not yet run; a step of an animator
\* thread changes nothing of completion, of the worker or of the consumer
\* and adds at most an 'anim' event to the queue; as many 'anim' events are
\* put as translate returned sentences, a failed translate only dropping
\* its own; and the events other than 'anim' are, in order, those of the
\* emit calls, the stream ending meta, events, delta, done as it does with
\* no animator.
AnimatorOffMainFlow ==
  /\ [](sse # <<>> => emitLog = NonAnim(SseEvents) \o NonAnim(QueuedEvents))
  /\ [](cpc = "done" => NonAnim(sse) = <<"meta">> \o emitLog \o <<"delta", "done">>)
  /\ [](Len(animPuts) = Cardinality({i \in 1..Len(anims) : anims[i].out = "text"}))
  /\ [][(emitLog' # emitLog) =>
          (/\ Len(anims') >= Len(anims)
           /\ SubSeq(anims', 1, Len(anims)) = anims
           /\ \A i \in (Len(anims) + 1)..Len(anims') : anims'[i].pc = "start"
           /\ animPuts' = animPuts)]_vars
  /\ [][(anims' # anims /\ emitLog' = emitLog) =>
          (/\ NonAnim(q') = NonAnim(q)
           /\ pc' = pc /\ resp' = resp /\ exc' = exc
           /\ wst' = wst /\ cpc' = cpc /\ sse' = sse
           /\ calls' = calls /\ counts' = counts /\ dbLog' = dbLog)]_vars

\* The stream is done with the reply of completion; one animator thread
\* met an exception of translate, one a backend error, one put its
\* sentence, which reached the stream.
AnimatorFailureWitness ==
  /\ cpc = "done"
  /\ pc = "returned"
  /\ \E i \in 1..Len(anims) : anims[i].out = "RuntimeError"
  /\ \E i \in 1..Len(anims) : anims[i].out = "OpenAIBackendError"
  /\ \E i \in 1..Len(anims) : anims[i].out = "text"
  /\ \E i \in 1..Len(sse) : sse[i] = "anim"
  /\ \E i \in 1..Len(sse) : sse[i] = "rows:evidence"

\* C32: when the similarity search returns no row (the retrieval step goes
\* on to the writer with an empty payload and the synthesis did not fail),
\* the highlight is the canned sentence, no meta event was emitted, no LLM
\* call was made and the ledger is as it was, whatever the cap of the agent
\* "retrieval".
NoRowsCannedSentence ==
  [][(pc = "retrieval" /\ pc' = "write" /\ retrievalPayload' = 0 /\ highlight' # "unavailable") =>
       (/\ highlight' = "canned"
        /\ calls' = calls
        /\ counts' = counts
        /\ emitLog' = emitLog
        /\ exc' = exc
        /\ raisedBy' = raisedBy)]_vars

\* The search found nothing, the budget of "retrieval" was zero, and the
\* writer's text is the reply.
NoRowsWitness ==
  /\ highlight = "canned"
  /\ limits["retrieval"] = 0
  /\ calls["retrieval"] = 0
  /\ resp.reply = "writer_text"

\* C33: the analyst preview after a satisfied round is called exactly when
\* RETRIEVAL_INJECT_ANALYST is set and the analyst is uncapped or has a unit
\* left; called or skipped, the step raises nothing and goes on to the
\* retrieval, and the analyst counter stays within its cap.
PreviewWithinCap ==
  [][(pc = "preview" /\ pc' # pc) =>
       (LET limit == CtxLimit(wctx, limits, "analyste")
            count == CtxCount(wctx, counts, "analyste")
            previewMade == injectAnalyst /\ (limit = None \/ count + 1 <= limit)
        IN  /\ pc' = "retrieval"
            /\ exc' = exc
            /\ raisedBy' = raisedBy
            /\ calls'["analyste"] = calls["analyste"] + (IF previewMade THEN 1 ELSE 0)
            /\ limit # None => CtxCount(wctx, counts', "analyste") <= limit)]_vars

\* The preview was asked for with the analyst's budget used up by
\* generate_with_evidence: it was skipped, and the retrieval and the writer
\* ran.
PreviewSkippedWitness ==
  /\ injectAnalyst
  /\ limits["analyste"] = 1
  /\ counts["analyste"] = 1
  /\ calls["analyste"] = 1
  /\ retrievalRuns = 1
  /\ resp.reply = "writer_text"

\* A query explore is to keep: it has a purpose and its SQL is a SELECT
\* whose tables carry the required prefix.
ValidQuery(query) == query.purpose /\ ValidatorAccepts(query.sql)

\* C34: explore fails only if the reply is no JSON, has no queries, or
\* none of the first max_steps queries is valid; with a valid query among
\* them it returns the valid queries in order.
ExploreFailsOnlyIfAllInvalid ==
  exploreOut # Pending =>
    LET head == SubSeq(exploreReply.queries, 1,
                       Min(NL2SQL_EXPLORE_MAX_STEPS, Len(exploreReply.queries)))
        valid == SelectSeq(head, ValidQuery)
    IN  IF exploreReply.json = "invalid" \/ valid = <<>>
          THEN exploreOut.status = "raised"
          ELSE /\ exploreOut.status = "returned"
               /\ exploreOut.out = [i \in 1..Len(valid) |-> ExtractSql(valid[i].sql)]

\* C35: for a base statement that is a set operation or has no FROM,
\* _derive_evidence_sql returns nothing and _emit_evidence runs no derived
\* query; for another SELECT the derived statement is a SELECT * over the
\* same FROM and WHERE, with a LIMIT.
EvidenceDerivation ==
  evidenceOut.status = "done" =>
    IF baseSql.setop # "none" \/ ~baseSql.from
      THEN evidenceOut.derived = <<>> /\ evidenceOut.executed = <<>>
      ELSE LET body == <<" ", "*">> \o FromClause(baseSql) \o WhereClause(baseSql)
           IN  /\ casefold(evidenceOut.derived[1]) \in {"select", "SELECT"}
               /\ SubSeq(evidenceOut.derived, 2, Len(body) + 1) = body
               /\ \E i \in 1..Len(evidenceOut.derived) : evidenceOut.derived[i] \in {"limit", "LIMIT"}
               /\ evidenceOut.executed = evidenceOut.derived

\* C36: whenever the writer is called after a satisfied round, the item of
\* the final answer query is among the evidence items of its prompt.
AnswerSurvivesCondensation ==
  writerArgs.called =>
    \E i \in 1..Len(WriterPrompt(writerArgs.evidence)) :
      WriterPrompt(writerArgs.evidence)[i] = AnswerItem(satisfiedAt)

\* C37 as stated (SpecValidator): every statement handed to the data engine
\* for a request names only tables of the request's effective table set; a
\* statement naming a correctly prefixed table of the data source that the
\* allow-list leaves out or the exclusion list removes is never executed.
RequestTables ==
  LET effective_tables == EffectiveTables(DataTables, allowed, exclude)
  IN  {casefold(effective_tables[i]) : i \in 1..Len(effective_tables)}
SourceTables == {casefold(DataTables[i]) : i \in 1..Len(DataTables)}
ExecutedWithinEffectiveTables ==
  \A sql \in {executed, passSql} :
    \A t \in TableRefs(sql) :
      (casefold(t.db) = RequiredPrefix /\ casefold(t.tbl) \in SourceTables)
        => casefold(t.tbl) \in RequestTables
\* C38 as stated (SpecTicketLock): the requests that called
\* _get_ticket_context_lock with one '<conversation_id>:<cache_key>' hold
\* the same lock object, and at most one of them at a time is inside the
\* cache read/build/store section of that key, in every interleaving.
HasLock(rq) == lpc[rq] \in {"acquire", "read", "build", "set", "release"}
InSection(rq) == lpc[rq] \in {"read", "build", "set", "release"}
TicketContextSectionExclusive ==
  \A a, b \in Requests :
    (a # b /\ lkey[a] = lkey[b]) =>
      /\ (HasLock(a) /\ HasLock(b)) => tlock[a] = tlock[b]
      /\ ~(InSection(a) /\ InSection(b))
\* C39 (Spec): when only the thread running completion charges the ledger,
\* no explore or generate_with_evidence call of the round loop raises
\* AgentBudgetExceeded: in round r <= rounds each of the two calls finds its
\* counter strictly below the cap, because every round before it consumed
\* exactly one explorer and one analyst unit and the counter at the start
\* plus rounds does not exceed the cap.
InRound == pc \in {"explore", "probe", "axes", "analyst", "final"}
RoundCallsWithinBudget ==
  /\ raisedBy \notin LedgerAgents
  /\ InRound =>
       /\ 1 <= r /\ r <= rounds
       /\ calls["explorateur"] = (IF pc = "explore" THEN r - 1 ELSE r)
       /\ calls["analyste"] = (IF pc = "final" THEN r ELSE r - 1)
       /\ \A a \in LedgerAgents :
            CtxLimit(wctx, limits, a) # None =>
              /\ CtxCount(wctx, counts, a) = countsAtStart[a] + calls[a]
              /\ countsAtStart[a] + rounds <= CtxLimit(wctx, limits, a)
  /\ pc = "explore" =>
       (/\ ~CaiRaises(wctx, limits, counts, "explorateur")
        /\ CtxLimit(wctx, limits, "explorateur") # None
             => CtxCount(wctx, counts, "explorateur") < CtxLimit(wctx, limits, "explorateur"))
  /\ pc = "analyst" =>
       (/\ ~CaiRaises(wctx, limits, counts, "analyste")
        /\ CtxLimit(wctx, limits, "analyste") # None
             => CtxCount(wctx, counts, "analyste") < CtxLimit(wctx, limits, "analyste"))
RoundCallsWitness ==
  /\ pc = "final"
  /\ r = 2
  /\ rounds = 2
  /\ countsAtStart["analyste"] = 0
  /\ \A a \in LedgerAgents : limits[a] # None /\ counts[a] = limits[a]
====
